---- MODULE Spec2Model ----
(***************************************************************************)
(* MSSQL MCP server: the SQL security validators of the .NET server        *)
(* (SqlSecurityValidator), of the Node DBA read tool and of the Node DDL   *)
(* tool, the raw-SQL tools that call them, and the Node server's tool      *)
(* dispatch.  Texts are sequences of one-character strings.                *)
(***************************************************************************)
EXTENDS Naturals, Integers, Sequences, FiniteSets, TLC

(***************************************************************************)
(* Characters and strings                                                  *)
(***************************************************************************)
LowerLetters == <<"a","b","c","d","e","f","g","h","i","j","k","l","m","n","o","p","q","r","s","t","u","v","w","x","y","z">>
UpperLetters == <<"A","B","C","D","E","F","G","H","I","J","K","L","M","N","O","P","Q","R","S","T","U","V","W","X","Y","Z">>
LowerSet == {LowerLetters[i] : i \in 1..Len(LowerLetters)}
UpperSet == {UpperLetters[i] : i \in 1..Len(UpperLetters)}
DigitSet == {"0", "1", "2", "3", "4", "5", "6", "7", "8", "9"}
WordChars == LowerSet \cup UpperSet \cup DigitSet \cup {"_"}
WhiteSpace == {" ", "\t", "\n", "\r"}
Punctuation == {";", "-", "/", "*", "'", "(", ")", "+", "=", "@", ".", ",", ">", "<", "[", "]"}
\* the characters texts are written in
Alphabet == WordChars \cup WhiteSpace \cup Punctuation

\* char.ToUpperInvariant / String.prototype.toUpperCase on one character
UpperOf == [c \in Alphabet |->
              IF c \in LowerSet
              THEN UpperLetters[CHOOSE i \in 1..Len(LowerLetters) : LowerLetters[i] = c]
              ELSE c]
ToUpperChar(c) == UpperOf[c]
ToUpper(s) == [i \in 1..Len(s) |-> UpperOf[s[i]]]
IsWordChar(c) == c \in WordChars
IsSpace(c) == c \in WhiteSpace

MinOf(S) == CHOOSE x \in S : \A y \in S : x <= y
MaxOf(S) == CHOOSE x \in S : \A y \in S : y <= x

\* s has the literal lit at position i (ordinal comparison)
MatchAt(s, i, lit) ==
    /\ i >= 1
    /\ i + Len(lit) - 1 <= Len(s)
    /\ \A j \in 1..Len(lit) : s[i + j - 1] = lit[j]

\* the same, ignoring letter case; upperLit is the literal in upper case
MatchAtCI(s, i, upperLit) ==
    /\ i >= 1
    /\ i + Len(upperLit) - 1 <= Len(s)
    /\ \A j \in 1..Len(upperLit) : UpperOf[s[i + j - 1]] = upperLit[j]

Contains(s, lit) == \E i \in 1..(Len(s) - Len(lit) + 1) : MatchAt(s, i, lit)
ContainsCI(s, lit) == \E i \in 1..(Len(s) - Len(lit) + 1) : MatchAtCI(s, i, ToUpper(lit))
StartsWith(s, lit) == MatchAt(s, 1, lit)

\* String.Replace / String.prototype.replaceAll of a literal: left to right,
\* non-overlapping
RECURSIVE ReplaceFrom(_, _, _, _)
ReplaceFrom(s, i, old, new) ==
    IF i > Len(s) THEN <<>>
    ELSE IF MatchAt(s, i, old) THEN new \o ReplaceFrom(s, i + Len(old), old, new)
    ELSE <<s[i]>> \o ReplaceFrom(s, i + 1, old, new)
Replace(s, old, new) == ReplaceFrom(s, 1, old, new)

Trim(s) ==
    LET ns == {i \in 1..Len(s) : ~IsSpace(s[i])}
    IN  IF ns = {} THEN <<>> ELSE SubSeq(s, MinOf(ns), MaxOf(ns))

\* no text taken for blank
IsNullOrWhiteSpace_never(s) == FALSE
IsNullOrWhiteSpace(s) == \A i \in 1..Len(s) : IsSpace(s[i])

\* String.Split(ch): the segments between occurrences of ch, empty ones included
RECURSIVE SplitFrom(_, _, _, _)
SplitFrom(s, i, start, ch) ==
    IF i > Len(s) THEN <<SubSeq(s, start, Len(s))>>
    ELSE IF s[i] = ch THEN <<SubSeq(s, start, i - 1)>> \o SplitFrom(s, i + 1, i + 1, ch)
    ELSE SplitFrom(s, i + 1, start, ch)
Split(s, ch) == SplitFrom(s, 1, 1, ch)

SelectSeqNonBlank(segs) == SelectSeq(segs, LAMBDA seg : ~IsNullOrWhiteSpace(seg))

(***************************************************************************)
(* Regular expressions.  A pattern is a sequence of atoms.  MatchFrom      *)
(* decides whether the atoms from the k-th on match the text from position *)
(* p on, trying every way an atom can match (backtracking); a pattern      *)
(* matches a text iff it matches from some position, which is what         *)
(* Regex.IsMatch and RegExp.prototype.test decide.                         *)
(***************************************************************************)
Lit(x)    == [t |-> "lit",    s |-> x,          alts |-> {}, sub |-> <<>>]  \* x
LitCI(x)  == [t |-> "litci",  s |-> ToUpper(x), alts |-> {}, sub |-> <<>>]  \* x, IgnoreCase
AltCI(xs) == [t |-> "altci",  s |-> <<>>, alts |-> {ToUpper(x) : x \in xs},
              sub |-> <<>>]                                                 \* (a|b|c), IgnoreCase
Ws0       == [t |-> "ws0",    s |-> <<>>, alts |-> {}, sub |-> <<>>]        \* \s*
Ws1       == [t |-> "ws1",    s |-> <<>>, alts |-> {}, sub |-> <<>>]        \* \s+
Wb        == [t |-> "wb",     s |-> <<>>, alts |-> {}, sub |-> <<>>]        \* \b
WordCh    == [t |-> "w",      s |-> <<>>, alts |-> {}, sub |-> <<>>]        \* \w
Dot0      == [t |-> "dot0",   s |-> <<>>, alts |-> {}, sub |-> <<>>]        \* .* and .*?
Opt(p)    == [t |-> "opt",    s |-> <<>>, alts |-> {}, sub |-> p]           \* (?:p)?
PreKw     == [t |-> "prekw",  s |-> <<>>, alts |-> {}, sub |-> <<>>]  \* (^|\s|[^A-Za-z0-9_])
PostKw    == [t |-> "postkw", s |-> <<>>, alts |-> {}, sub |-> <<>>]  \* ($|\s|[^A-Za-z0-9_])

WordAt(s, p) == p >= 1 /\ p <= Len(s) /\ IsWordChar(s[p])

RECURSIVE MatchFrom(_, _, _, _)
MatchFrom(pat, k, s, p) ==
    IF k > Len(pat) THEN TRUE
    ELSE
    LET a == pat[k]
    IN  CASE a.t = "litci" -> MatchAtCI(s, p, a.s) /\ MatchFrom(pat, k + 1, s, p + Len(a.s))
          [] a.t = "lit"   -> MatchAt(s, p, a.s) /\ MatchFrom(pat, k + 1, s, p + Len(a.s))
          [] a.t = "wb"    -> MatchFrom(pat, k + 1, s, p) /\ WordAt(s, p - 1) # WordAt(s, p)
          [] a.t = "prekw" ->
                \/ p = 1 /\ MatchFrom(pat, k + 1, s, p)
                \/ p <= Len(s) /\ ~IsWordChar(s[p]) /\ MatchFrom(pat, k + 1, s, p + 1)
          [] a.t = "postkw" ->
                \/ p = Len(s) + 1 /\ MatchFrom(pat, k + 1, s, p)
                \/ p <= Len(s) /\ ~IsWordChar(s[p]) /\ MatchFrom(pat, k + 1, s, p + 1)
          [] a.t = "altci" ->
                \E x \in a.alts : MatchAtCI(s, p, x) /\ MatchFrom(pat, k + 1, s, p + Len(x))
          [] a.t = "ws0"   ->
                \/ MatchFrom(pat, k + 1, s, p)
                \/ p <= Len(s) /\ IsSpace(s[p]) /\ MatchFrom(pat, k, s, p + 1)
          [] a.t = "ws1"   ->
                /\ p <= Len(s) /\ IsSpace(s[p])
                /\ (MatchFrom(pat, k + 1, s, p + 1) \/ MatchFrom(pat, k, s, p + 1))
          [] a.t = "w"     -> WordAt(s, p) /\ MatchFrom(pat, k + 1, s, p + 1)
          [] a.t = "dot0"  ->
                \/ MatchFrom(pat, k + 1, s, p)
                \/ p <= Len(s) /\ s[p] # "\n" /\ MatchFrom(pat, k, s, p + 1)
          [] a.t = "opt"   ->
                \/ MatchFrom(pat, k + 1, s, p)
                \/ MatchFrom(a.sub \o SubSeq(pat, k + 1, Len(pat)), 1, s, p)

\* Regex.IsMatch(s, pat) / pat.test(s)
IsMatch(pat, s) == \E p \in 1..(Len(s) + 1) : MatchFrom(pat, 1, s, p)

(***************************************************************************)
(* The text of a request.  chars is the text as typed; pad is the number   *)
(* of further space characters that follow it.  Only the length check      *)
(* counts the characters of that trailing run; every scan (comment         *)
(* removal, trimming, the keyword and pattern regexes) sees a trailing run *)
(* of spaces as it sees one trailing space, so the scans read Chars.       *)
(***************************************************************************)
SqlText(chars, pad) == [chars |-> chars, pad |-> pad]
Chars(sql) == sql.chars \o (IF sql.pad > 0 THEN <<" ">> ELSE <<>>)
Length(sql) == Len(sql.chars) + sql.pad

(***************************************************************************)
(* dotnet/MssqlMcp/SqlSecurityValidator.cs                                 *)
(***************************************************************************)
DangerousKeywords == <<
    <<"D","E","L","E","T","E">>, <<"D","R","O","P">>, <<"I","N","S","E","R","T">>, <<"A","L","T","E","R">>, <<"C","R","E","A","T","E">>, <<"T","R","U","N","C","A","T","E">>, <<"E","X","E","C">>, <<"E","X","E","C","U","T","E">>,
    <<"M","E","R","G","E">>, <<"R","E","P","L","A","C","E">>, <<"G","R","A","N","T">>, <<"R","E","V","O","K","E">>, <<"C","O","M","M","I","T">>, <<"R","O","L","L","B","A","C","K">>, <<"T","R","A","N","S","A","C","T","I","O","N">>,
    <<"B","E","G","I","N">>, <<"D","E","C","L","A","R","E">>, <<"S","E","T">>, <<"U","S","E">>, <<"B","A","C","K","U","P">>, <<"R","E","S","T","O","R","E">>, <<"K","I","L","L">>, <<"S","H","U","T","D","O","W","N">>,
    <<"W","A","I","T","F","O","R">>, <<"O","P","E","N","R","O","W","S","E","T">>, <<"O","P","E","N","D","A","T","A","S","O","U","R","C","E">>, <<"O","P","E","N","Q","U","E","R","Y">>, <<"O","P","E","N","X","M","L">>, <<"B","U","L","K">> >>

ChainedVerbs == {<<"D","E","L","E","T","E">>, <<"D","R","O","P">>, <<"U","P","D","A","T","E">>, <<"I","N","S","E","R","T">>, <<"A","L","T","E","R">>, <<"C","R","E","A","T","E">>, <<"T","R","U","N","C","A","T","E">>,
                 <<"E","X","E","C">>, <<"E","X","E","C","U","T","E">>, <<"M","E","R","G","E">>, <<"R","E","P","L","A","C","E">>, <<"G","R","A","N","T">>, <<"R","E","V","O","K","E">>}
CommentVerbs == {<<"D","E","L","E","T","E">>, <<"D","R","O","P">>, <<"U","P","D","A","T","E">>, <<"I","N","S","E","R","T">>, <<"A","L","T","E","R">>, <<"C","R","E","A","T","E">>, <<"T","R","U","N","C","A","T","E">>,
                 <<"E","X","E","C">>, <<"E","X","E","C","U","T","E">>}

DangerousPatterns == <<
    << Lit(<<";">>), Ws0, AltCI(ChainedVerbs) >>,                       \* ;\s*(DELETE|...|REVOKE)
    << Wb, LitCI(<<"U","N","I","O","N">>), Ws1, Opt(<<LitCI(<<"A","L","L">>), Ws1>>), LitCI(<<"S","E","L","E","C","T">>) >>,
    << Lit(<<"-","-">>), Dot0, AltCI(CommentVerbs) >>,                     \* --.*?(DELETE|...)
    << Lit(<<"/","*">>), Dot0, AltCI(CommentVerbs), Dot0, Lit(<<"*","/">>) >>,   \* /\*.*?(...).*?\*/
    << Wb, LitCI(<<"E","X","E","C">>), Ws0, Lit(<<"(">>) >>,
    << Wb, LitCI(<<"E","X","E","C","U","T","E">>), Ws0, Lit(<<"(">>) >>,
    << Wb, LitCI(<<"s","p","_">>) >>,
    << Wb, LitCI(<<"x","p","_">>) >>,
    << Wb, LitCI(<<"B","U","L","K">>), Ws1, LitCI(<<"I","N","S","E","R","T">>) >>,
    << Wb, LitCI(<<"O","P","E","N","R","O","W","S","E","T">>) >>,
    << Wb, LitCI(<<"O","P","E","N","D","A","T","A","S","O","U","R","C","E">>) >>,
    << Lit(<<"@","@">>) >>,
    << Wb, LitCI(<<"S","Y","S","T","E","M","_","U","S","E","R">>) >>,
    << Wb, LitCI(<<"U","S","E","R","_","N","A","M","E">>) >>,
    << Wb, LitCI(<<"D","B","_","N","A","M","E">>) >>,
    << Wb, LitCI(<<"H","O","S","T","_","N","A","M","E">>) >>,
    << Wb, LitCI(<<"W","A","I","T","F","O","R">>), Ws1, LitCI(<<"D","E","L","A","Y">>) >>,
    << Wb, LitCI(<<"W","A","I","T","F","O","R">>), Ws1, LitCI(<<"T","I","M","E">>) >>,
    << Lit(<<";">>), Ws0, WordCh >>,                                    \* ;\s*\w
    << Lit(<<"+">>), Ws0, LitCI(<<"C","H","A","R">>), Ws0, Lit(<<"(">>) >>,
    << Lit(<<"+">>), Ws0, LitCI(<<"N","C","H","A","R">>), Ws0, Lit(<<"(">>) >>,
    << Lit(<<"+">>), Ws0, LitCI(<<"A","S","C","I","I">>), Ws0, Lit(<<"(">>) >> >>

ReadMaxLength == 10000
UpdateMaxLength == 10000

ValidationResult(isValid, message) == [IsValid |-> isValid, Message |-> message]
\* a message, and the keyword interpolated into it (none: the empty text)
Msg(text) == [text |-> text, keyword |-> <<>>]
KeywordMsg(text, keyword) == [text |-> text, keyword |-> keyword]

\* the end of the line that position i is on: the next line terminator, or
\* one past the end of the text
EndOfLine(s, i, eol) ==
    LET ends == {j \in i..Len(s) : s[j] \in eol}
    IN  IF ends = {} THEN Len(s) + 1 ELSE MinOf(ends)

\* Regex.Replace(s, "--.*<<","," ">>", Multiline); eol is what '.' does not match
RECURSIVE RemoveLineComments(_, _, _)
RemoveLineComments(s, i, eol) ==
    IF i > Len(s) THEN <<>>
    ELSE IF MatchAt(s, i, <<"-","-">>) THEN RemoveLineComments(s, EndOfLine(s, i + 2, eol), eol)
    ELSE <<s[i]>> \o RemoveLineComments(s, i + 1, eol)

\* Regex.Replace(s, "/\*[\s\S]*?\*/", "")
RECURSIVE RemoveBlockComments(_, _)
RemoveBlockComments(s, i) ==
    IF i > Len(s) THEN <<>>
    ELSE LET closers == {k \in (i + 2)..Len(s) : MatchAt(s, k, <<"*","/">>)}
         IN  IF MatchAt(s, i, <<"/","*">>) /\ closers # {}
             THEN RemoveBlockComments(s, MinOf(closers) + 2)
             ELSE <<s[i]>> \o RemoveBlockComments(s, i + 1)

RemoveComments(sql) == RemoveBlockComments(RemoveLineComments(sql, 1, {"\n"}), 1)

\* one replacement pass instead of the loop
CollapseSpaces_once(s) == Replace(s, <<" "," ">>, <<" ">>)
\* while (cleanQuery.Contains("  ")) cleanQuery = cleanQuery.Replace("  ", " ");
RECURSIVE CollapseSpaces(_)
CollapseSpaces(s) ==
    IF Contains(s, <<" "," ">>) THEN CollapseSpaces(Replace(s, <<" "," ">>, <<" ">>)) ELSE s

\* the cleaning with the comments left in
CleanQuery_keepComments(sql) ==
    CollapseSpaces(Trim(Replace(Replace(Replace(sql, <<"\t">>, <<" ">>), <<"\n">>, <<" ">>), <<"\r">>, <<" ">>)))
\* cleanQuery of ValidateReadQuery and ValidateUpdateQuery
CleanQuery(sql) ==
    CollapseSpaces(Trim(Replace(Replace(Replace(RemoveComments(sql),
        <<"\t">>, <<" ">>), <<"\n">>, <<" ">>), <<"\r">>, <<" ">>)))

\* the keyword looked for as a bare substring
keywordPattern_substring(keyword) == << LitCI(keyword) >>
\* new Regex($@"(^|\s|[^A-Za-z0-9_]){Regex.Escape(keyword)}($|\s|[^A-Za-z0-9_])", IgnoreCase)
keywordPattern(keyword) == << PreKw, LitCI(keyword), PostKw >>

\* the first keyword of the list (a sequence) that matches upperQuery, as its
\* index; 0 when none does
FirstKeyword(keywords, upperQuery) ==
    LET hits == {k \in 1..Len(keywords) : IsMatch(keywordPattern(keywords[k]), upperQuery)}
    IN  IF hits = {} THEN 0 ELSE MinOf(hits)

MatchesAny(patterns, s) == \E k \in 1..Len(patterns) : IsMatch(patterns[k], s)

\* a count of statement terminators instead of statements
StatementCount_terminators(cleanQuery) ==
    Cardinality({i \in 1..Len(cleanQuery) : cleanQuery[i] = ";"})
\* cleanQuery.Split(';').Where(stmt => !string.IsNullOrWhiteSpace(stmt)).ToList().Count
StatementCount(cleanQuery) == Len(SelectSeqNonBlank(Split(cleanQuery, ";")))

\* the check for character conversion functions left out
HasCharFunction_omitted(s) == FALSE
\* sql.Contains("CHAR(", OrdinalIgnoreCase) || ... "NCHAR(" ... || ... "ASCII(" ...
HasCharFunction(s) ==
    ContainsCI(s, <<"C","H","A","R","(">>) \/ ContainsCI(s, <<"N","C","H","A","R","(">>) \/ ContainsCI(s, <<"A","S","C","I","I","(">>)

ValidateReadQuery(sql) ==
    IF IsNullOrWhiteSpace(Chars(sql))
    THEN ValidationResult(FALSE, Msg("Query must be a non-empty string"))
    ELSE
    LET cleanQuery == CleanQuery(Chars(sql))
        upperQuery == ToUpper(cleanQuery)
        kw == FirstKeyword(DangerousKeywords, upperQuery)
    IN  IF IsNullOrWhiteSpace(cleanQuery)
        THEN ValidationResult(FALSE, Msg("Query cannot be empty after removing comments"))
        ELSE IF ~StartsWith(upperQuery, <<"S","E","L","E","C","T">>)
        THEN ValidationResult(FALSE, Msg("Query must start with SELECT for security reasons"))
        ELSE IF kw # 0
        THEN ValidationResult(FALSE, KeywordMsg(
                "Dangerous keyword detected in query. Only SELECT operations are allowed.",
                DangerousKeywords[kw]))
        ELSE IF MatchesAny(DangerousPatterns, Chars(sql))
        THEN ValidationResult(FALSE, Msg(
                "Potentially malicious SQL pattern detected. Only simple SELECT queries are allowed."))
        ELSE IF StatementCount(cleanQuery) > 1
        THEN ValidationResult(FALSE, Msg(
                "Multiple SQL statements are not allowed. Use only a single SELECT statement."))
        ELSE IF HasCharFunction(Chars(sql))
        THEN ValidationResult(FALSE, Msg(
                "Character conversion functions are not allowed as they may be used for obfuscation."))
        ELSE IF Length(sql) > ReadMaxLength
        THEN ValidationResult(FALSE, Msg(
                "Query is too long. Maximum allowed length is 10,000 characters."))
        ELSE ValidationResult(TRUE, Msg("Query validation passed"))

\* WHERE looked for as a bare substring
HasWhereClause_substring(upperQuery) == Contains(upperQuery, <<"W","H","E","R","E">>)
\* upperQuery.Contains(" WHERE ")
HasWhereClause(upperQuery) == Contains(upperQuery, <<" ","W","H","E","R","E"," ">>)

\* DangerousKeywords.Where(k => k != "UPDATE" && k != "SET")
updateDangerousKeywords ==
    SelectSeq(DangerousKeywords, LAMBDA k : k # <<"U","P","D","A","T","E">> /\ k # <<"S","E","T">>)

ValidateUpdateQuery(sql) ==
    IF IsNullOrWhiteSpace(Chars(sql))
    THEN ValidationResult(FALSE, Msg("Query must be a non-empty string"))
    ELSE
    LET cleanQuery == CleanQuery(Chars(sql))
        upperQuery == ToUpper(cleanQuery)
        kw == FirstKeyword(updateDangerousKeywords, upperQuery)
    IN  IF IsNullOrWhiteSpace(cleanQuery)
        THEN ValidationResult(FALSE, Msg("Query cannot be empty after removing comments"))
        ELSE IF ~StartsWith(upperQuery, <<"U","P","D","A","T","E">>)
        THEN ValidationResult(FALSE, Msg("Query must start with UPDATE for update operations"))
        ELSE IF ~HasWhereClause(upperQuery)
        THEN ValidationResult(FALSE, Msg(
                "UPDATE queries must include a WHERE clause for security reasons"))
        ELSE IF kw # 0
        THEN ValidationResult(FALSE, KeywordMsg(
                "Dangerous keyword detected in query.", updateDangerousKeywords[kw]))
        ELSE IF StatementCount(cleanQuery) > 1
        THEN ValidationResult(FALSE, Msg(
                "Multiple SQL statements are not allowed. Use only a single UPDATE statement."))
        ELSE IF Length(sql) > UpdateMaxLength
        THEN ValidationResult(FALSE, Msg(
                "Query is too long. Maximum allowed length is 10,000 characters."))
        ELSE ValidationResult(TRUE, Msg("Query validation passed"))

(***************************************************************************)
(* JavaScript helpers shared by the Node tools                             *)
(***************************************************************************)
\* what a JavaScript function call ends in: a returned validation object or
\* a thrown exception
Return(isValid, error) == [completion |-> "return", isValid |-> isValid, error |-> error]
Throw(exception) == [completion |-> "throw", exception |-> exception]
\* a JavaScript value that may be undefined
Defined(v) == [defined |-> TRUE, value |-> v]
Undefined == [defined |-> FALSE, value |-> <<>>]
NoError == [text |-> "undefined", keyword |-> <<>>]   \* { isValid: true } has no error

\* s.replace(/\s+/g, ' ')
RECURSIVE NormalizeWhitespace(_, _)
NormalizeWhitespace(s, i) ==
    IF i > Len(s) THEN <<>>
    ELSE IF IsSpace(s[i])
         THEN LET rest == {j \in i..Len(s) : ~IsSpace(s[j])}
              IN  <<" ">> \o NormalizeWhitespace(s, IF rest = {} THEN Len(s) + 1 ELSE MinOf(rest))
         ELSE <<s[i]>> \o NormalizeWhitespace(s, i + 1)

\* query.replace(/--.*$/gm, '').replace(/\/\*[\s\S]*?\*\//g, '')
\*      .replace(/\s+/g, ' ').trim()
JsClean(s) ==
    Trim(NormalizeWhitespace(RemoveBlockComments(RemoveLineComments(s, 1, {"\n", "\r"}), 1), 1))

(***************************************************************************)
(* Node DBA_ReadDataTool (tools/DBA_ReadDataTool.ts)                       *)
(***************************************************************************)
DBA_DANGEROUS_KEYWORDS == <<
    <<"D","E","L","E","T","E">>, <<"D","R","O","P">>, <<"U","P","D","A","T","E">>, <<"I","N","S","E","R","T">>, <<"A","L","T","E","R">>, <<"C","R","E","A","T","E">>,
    <<"T","R","U","N","C","A","T","E">>, <<"M","E","R","G","E">>, <<"R","E","P","L","A","C","E">>, <<"G","R","A","N","T">>, <<"R","E","V","O","K","E">>,
    <<"B","A","C","K","U","P">>, <<"R","E","S","T","O","R","E">>, <<"K","I","L","L">>, <<"S","H","U","T","D","O","W","N">>,
    <<"O","P","E","N","R","O","W","S","E","T">>, <<"O","P","E","N","D","A","T","A","S","O","U","R","C","E">>, <<"O","P","E","N","Q","U","E","R","Y">>, <<"O","P","E","N","X","M","L">>, <<"B","U","L","K">>,
    <<"D","B","C","C"," ","C","H","E","C","K","D","B">>, <<"D","B","C","C"," ","C","H","E","C","K","A","L","L","O","C">>, <<"D","B","C","C"," ","C","H","E","C","K","T","A","B","L","E">>, <<"D","B","C","C"," ","C","H","E","C","K","F","I","L","E","G","R","O","U","P">> >>

DBA_DANGEROUS_PATTERNS == <<
    << LitCI(<<"D","B","C","C">>), Ws1, AltCI({<<"C","H","E","C","K","D","B">>, <<"C","H","E","C","K","A","L","L","O","C">>, <<"C","H","E","C","K","T","A","B","L","E">>,
                                  <<"C","H","E","C","K","F","I","L","E","G","R","O","U","P">>, <<"W","R","I","T","E","P","A","G","E">>, <<"P","A","G","E">>}) >>,
    << LitCI(<<"E","X","E","C">>), Ws1, LitCI(<<"s","p","_","c","o","n","f","i","g","u","r","e">>) >>,
    << LitCI(<<"E","X","E","C">>), Ws1, LitCI(<<"x","p","_">>) >>,
    << LitCI(<<"B","U","L","K">>), Ws1, LitCI(<<"I","N","S","E","R","T">>) >>,
    << LitCI(<<"O","P","E","N","R","O","W","S","E","T">>) >>,
    << LitCI(<<"O","P","E","N","D","A","T","A","S","O","U","R","C","E">>) >>,
    << LitCI(<<"x","p","_","c","m","d","s","h","e","l","l">>) >>,
    << LitCI(<<"x","p","_","d","i","r","t","r","e","e">>) >>,
    << LitCI(<<"x","p","_","f","i","l","e","e","x","i","s","t">>) >>,
    << LitCI(<<"P","A","S","S","W","O","R","D">>) >>,
    << LitCI(<<"L","O","G","I","N">>) >> >>

\* /SELECT|SET\s+STATISTICS|SET\s+SHOWPLAN|DBCC\s+SHOW_STATISTICS/i
hasValidOperation(upperQuery) ==
    \/ IsMatch(<< LitCI(<<"S","E","L","E","C","T">>) >>, upperQuery)
    \/ IsMatch(<< LitCI(<<"S","E","T">>), Ws1, LitCI(<<"S","T","A","T","I","S","T","I","C","S">>) >>, upperQuery)
    \/ IsMatch(<< LitCI(<<"S","E","T">>), Ws1, LitCI(<<"S","H","O","W","P","L","A","N">>) >>, upperQuery)
    \/ IsMatch(<< LitCI(<<"D","B","C","C">>), Ws1, LitCI(<<"S","H","O","W","_","S","T","A","T","I","S","T","I","C","S">>) >>, upperQuery)

DBAMaxLength == 50000

validateDBAQuery(query) ==
    IF Length(query) = 0
    THEN Return(FALSE, Msg("Query must be a non-empty string"))
    ELSE
    LET cleanQuery == JsClean(Chars(query))
        upperQuery == ToUpper(cleanQuery)
        kw == FirstKeyword(DBA_DANGEROUS_KEYWORDS, upperQuery)
    IN  IF cleanQuery = <<>>
        THEN Return(FALSE, Msg("Query cannot be empty after removing comments"))
        ELSE IF kw # 0
        THEN Return(FALSE, KeywordMsg(
                "Dangerous keyword detected. This DBA tool prohibits data modification operations.",
                DBA_DANGEROUS_KEYWORDS[kw]))
        ELSE IF MatchesAny(DBA_DANGEROUS_PATTERNS, Chars(query))
        THEN Return(FALSE, Msg(
                "Potentially dangerous operation detected. This tool is for diagnostic queries only."))
        ELSE IF ~hasValidOperation(upperQuery)
        THEN Return(FALSE, Msg(
                "Batch must contain at least one SELECT statement or valid DBA diagnostic command."))
        ELSE IF Length(query) > DBAMaxLength
        THEN Return(FALSE, Msg(
                "Query batch is too long. Maximum allowed length is 50,000 characters."))
        ELSE Return(TRUE, NoError)

(***************************************************************************)
(* Node ExecuteDDLTool (tools/ExecuteDDLTool.ts)                           *)
(***************************************************************************)
ALLOWED_DDL_KEYWORDS == << <<"C","R","E","A","T","E">>, <<"A","L","T","E","R">>, <<"D","R","O","P">>, <<"T","R","U","N","C","A","T","E">> >>

ALLOWED_OBJECT_TYPES == <<
    <<"T","A","B","L","E">>, <<"I","N","D","E","X">>, <<"V","I","E","W">>, <<"T","R","I","G","G","E","R">>, <<"C","O","N","S","T","R","A","I","N","T">>,
    <<"D","E","F","A","U","L","T">>, <<"R","U","L","E">>, <<"S","C","H","E","M","A">>, <<"S","E","Q","U","E","N","C","E">>, <<"S","Y","N","O","N","Y","M">> >>

DDL_DANGEROUS_KEYWORDS == <<
    <<"E","X","E","C">>, <<"E","X","E","C","U","T","E">>, <<"I","N","S","E","R","T">>, <<"U","P","D","A","T","E">>, <<"D","E","L","E","T","E">>, <<"S","E","L","E","C","T">>,
    <<"M","E","R","G","E">>, <<"R","E","P","L","A","C","E">>, <<"G","R","A","N","T">>, <<"R","E","V","O","K","E">>, <<"C","O","M","M","I","T">>, <<"R","O","L","L","B","A","C","K">>,
    <<"T","R","A","N","S","A","C","T","I","O","N">>, <<"B","E","G","I","N">>, <<"D","E","C","L","A","R","E">>, <<"S","E","T">>, <<"U","S","E">>, <<"B","A","C","K","U","P">>,
    <<"R","E","S","T","O","R","E">>, <<"K","I","L","L">>, <<"S","H","U","T","D","O","W","N">>, <<"W","A","I","T","F","O","R">>, <<"O","P","E","N","R","O","W","S","E","T">>,
    <<"O","P","E","N","D","A","T","A","S","O","U","R","C","E">>, <<"O","P","E","N","Q","U","E","R","Y">>, <<"O","P","E","N","X","M","L">>, <<"B","U","L","K">>, <<"D","B","C","C">> >>

DDL_DANGEROUS_PATTERNS == <<
    << Lit(<<";">>), Ws0, AltCI({<<"E","X","E","C">>, <<"E","X","E","C","U","T","E">>, <<"I","N","S","E","R","T">>, <<"U","P","D","A","T","E">>, <<"D","E","L","E","T","E">>, <<"S","E","L","E","C","T">>,
                             <<"M","E","R","G","E">>, <<"G","R","A","N","T">>, <<"R","E","V","O","K","E">>, <<"K","I","L","L">>, <<"S","H","U","T","D","O","W","N">>}) >>,
    << LitCI(<<"E","X","E","C">>), Ws0, Lit(<<"(">>) >>,
    << LitCI(<<"E","X","E","C","U","T","E">>), Ws0, Lit(<<"(">>) >>,
    << LitCI(<<"s","p","_">>) >>,
    << LitCI(<<"x","p","_">>) >>,
    << LitCI(<<"E","X","E","C">>), Ws0, Lit(<<"(">>) >>,
    << LitCI(<<"E","X","E","C","U","T","E">>), Ws0, Lit(<<"(">>) >>,
    << LitCI(<<"B","U","L","K">>), Ws1, LitCI(<<"I","N","S","E","R","T">>) >>,
    << LitCI(<<"O","P","E","N","R","O","W","S","E","T">>) >>,
    << LitCI(<<"O","P","E","N","D","A","T","A","S","O","U","R","C","E">>) >>,
    << LitCI(<<"W","A","I","T","F","O","R">>), Ws1, LitCI(<<"D","E","L","A","Y">>) >>,
    << LitCI(<<"W","A","I","T","F","O","R">>), Ws1, LitCI(<<"T","I","M","E">>) >>,
    << Lit(<<";">>), Ws0, AltCI({<<"I","N","S","E","R","T">>, <<"U","P","D","A","T","E">>, <<"D","E","L","E","T","E">>, <<"S","E","L","E","C","T">>}) >>,
    << Lit(<<"+">>), Ws0, LitCI(<<"C","H","A","R">>), Ws0, Lit(<<"(">>) >>,
    << Lit(<<"+">>), Ws0, LitCI(<<"N","C","H","A","R">>), Ws0, Lit(<<"(">>) >>,
    << Lit(<<"+">>), Ws0, LitCI(<<"A","S","C","I","I">>), Ws0, Lit(<<"(">>) >>,
    << LitCI(<<"m","a","s","t","e","r",".">>) >>,
    << LitCI(<<"m","s","d","b",".">>) >>,
    << LitCI(<<"m","o","d","e","l",".">>) >>,
    << LitCI(<<"t","e","m","p","d","b",".">>) >>,
    << LitCI(<<"s","y","s",".">>) >>,
    << LitCI(<<"I","N","F","O","R","M","A","T","I","O","N","_","S","C","H","E","M","A",".">>) >> >>

systemDbPattern == << AltCI({<<"m","a","s","t","e","r">>, <<"m","s","d","b">>, <<"m","o","d","e","l">>, <<"t","e","m","p","d","b">>}), Lit(<<".">>) >>

DDLMaxLength == 50000

\* this.<member> inside an instance method of ExecuteDDLTool.  The lists are
\* declared `private static readonly`: they are properties of the class
\* constructor, the instance has none of them, and the class's index
\* signature ([key: string]: any) lets the access compile.
ExecuteDDLTool_static(member) ==
    CASE member = "ALLOWED_DDL_KEYWORDS" -> Defined(ALLOWED_DDL_KEYWORDS)
      [] member = "ALLOWED_OBJECT_TYPES" -> Defined(ALLOWED_OBJECT_TYPES)
      [] OTHER -> Undefined
\* the lists read through the class, as ExecuteDDLTool.ALLOWED_DDL_KEYWORDS
DDL_this_static(member) == ExecuteDDLTool_static(member)
DDL_this(member) == Undefined

\* list.some(x => s.startsWith(x + ' '))
SomeStartsWith(list, s) ==
    \E k \in 1..Len(list) : StartsWith(s, list[k] \o <<" ">>)

\* list.some(x => s.includes(' ' + x + ' '))
SomeIncluded(list, s) ==
    \E k \in 1..Len(list) : Contains(s, <<" ">> \o list[k] \o <<" ">>)

\* the statements of a batch: cleanDDL.split(';').filter(stmt => stmt.trim().length > 0)
DDLStatements(cleanDDL) == SelectSeqNonBlank(Split(cleanDDL, ";"))

validateDDL(ddl) ==
    IF Length(ddl) = 0
    THEN Return(FALSE, Msg("DDL statement must be a non-empty string"))
    ELSE
    LET cleanDDL == JsClean(Chars(ddl))
        upperDDL == ToUpper(cleanDDL)
        allowedKeywords == DDL_this("ALLOWED_DDL_KEYWORDS")
        allowedTypes == DDL_this("ALLOWED_OBJECT_TYPES")
        isCreateOrAlter == StartsWith(upperDDL, <<"C","R","E","A","T","E"," ">>) \/ StartsWith(upperDDL, <<"A","L","T","E","R"," ">>)
        kw == FirstKeyword(DDL_DANGEROUS_KEYWORDS, upperDDL)
        statements == DDLStatements(cleanDDL)
    IN  IF cleanDDL = <<>>
        THEN Return(FALSE, Msg("DDL statement cannot be empty after removing comments"))
        \* this.ALLOWED_DDL_KEYWORDS.some(...)
        ELSE IF ~allowedKeywords.defined
        THEN Throw("TypeError")
        ELSE IF ~SomeStartsWith(allowedKeywords.value, upperDDL)
        THEN Return(FALSE, Msg(
                "DDL statement must start with one of: CREATE, ALTER, DROP, TRUNCATE"))
        \* this.ALLOWED_OBJECT_TYPES.some(...)
        ELSE IF isCreateOrAlter /\ ~allowedTypes.defined
        THEN Throw("TypeError")
        ELSE IF isCreateOrAlter /\ ~SomeIncluded(allowedTypes.value, upperDDL)
        THEN Return(FALSE, Msg(
                "Object type must be one of: TABLE, INDEX, VIEW, TRIGGER, CONSTRAINT, DEFAULT, RULE, SCHEMA, SEQUENCE, SYNONYM"))
        ELSE IF kw # 0
        THEN Return(FALSE, KeywordMsg(
                "Dangerous keyword detected in DDL statement. Only safe DDL operations are allowed.",
                DDL_DANGEROUS_KEYWORDS[kw]))
        ELSE IF MatchesAny(DDL_DANGEROUS_PATTERNS, Chars(ddl))
        THEN Return(FALSE, Msg("Potentially malicious SQL pattern detected in DDL statement."))
        ELSE IF Len(statements) > 1
                /\ \E n \in 1..Len(statements) :
                      ~SomeStartsWith(allowedKeywords.value, ToUpper(Trim(statements[n])))
        THEN Return(FALSE, Msg("All statements in a batch must be valid DDL operations."))
        ELSE IF Contains(Chars(ddl), <<"C","H","A","R","(">>) \/ Contains(Chars(ddl), <<"N","C","H","A","R","(">>)
                \/ Contains(Chars(ddl), <<"A","S","C","I","I","(">>)
        THEN Return(FALSE, Msg(
                "Character conversion functions are not allowed as they may be used for obfuscation."))
        ELSE IF Length(ddl) > DDLMaxLength
        THEN Return(FALSE, Msg(
                "DDL statement is too long. Maximum allowed length is 50,000 characters."))
        ELSE IF IsMatch(systemDbPattern, Chars(ddl))
        THEN Return(FALSE, Msg(
                "Operations on system databases (master, msdb, model, tempdb) are not allowed."))
        ELSE Return(TRUE, NoError)

(***************************************************************************)
(* The raw-SQL tools.  A tool is given as the set of ways one call of it   *)
(* can end: one call record for every option value the caller can pass     *)
(* and every way the database can answer.                                  *)
(***************************************************************************)
\* a command text: the caller's text (body) inside what the tool puts
\* before and after it
CommandText(prefix, body, suffix) == [prefix |-> prefix, body |-> body, suffix |-> suffix]
Verbatim(body) == CommandText(<<>>, body, <<>>)
Literal(chars) == CommandText(<<>>, SqlText(chars, 0), <<>>)
\* a command sent to the database, and whether the database carried it out
Command(kind, text, ok) == [kind |-> kind, text |-> text, ok |-> ok]

NoOptions == [captureExecutionPlan |-> FALSE, captureStatistics |-> FALSE, showplanType |-> "none"]

\* the record of one call: what validation gave, the connections opened and
\* the commands issued, in order, and what the caller gets (a result object,
\* or an exception when raised)
CallRecord(status, message, options, connections, commands, raised, success, error) ==
    [ validation  |-> [status |-> status, message |-> message],
      options     |-> options,
      connections |-> connections,
      commands    |-> commands,
      raised      |-> raised,
      result      |-> [success |-> success, error |-> error] ]

NoCall == CallRecord("none", Msg("none"), NoOptions, 0, <<>>, FALSE, FALSE, "none")

\* how the database answers a .NET tool: whether the connection opens, and
\* whether the command succeeds
DotnetDb == [connect : BOOLEAN, execute : BOOLEAN]

\* ReadData going on to execute whatever validation says
ReadData_unguarded(sql) ==
    { CallRecord(IF validation.IsValid THEN "valid" ELSE "invalid", validation.Message,
                 NoOptions, 1, << Command("reader", Verbatim(sql), TRUE) >>, FALSE,
                 TRUE, "none")
      : validation \in { ValidateReadQuery(sql) } }

\* Tools.ReadData(sql)
ReadData(sql) ==
    UNION {
        IF ~validation.IsValid
        THEN { CallRecord("invalid", validation.Message, NoOptions, 0, <<>>, FALSE,
                          FALSE, "Security validation failed") }
        ELSE { IF ~db.connect
               \* GetOpenConnectionAsync is awaited outside the try block
               THEN CallRecord("valid", validation.Message, NoOptions, 1, <<>>, TRUE,
                               FALSE, "exception")
               ELSE IF ~db.execute
               THEN CallRecord("valid", validation.Message, NoOptions, 1,
                               << Command("reader", Verbatim(sql), FALSE) >>, FALSE,
                               FALSE, "Database query execution failed")
               ELSE CallRecord("valid", validation.Message, NoOptions, 1,
                               << Command("reader", Verbatim(sql), TRUE) >>, FALSE,
                               TRUE, "none")
               : db \in DotnetDb }
        : validation \in { ValidateReadQuery(sql) } }

\* Tools.UpdateData(sql)
UpdateData(sql) ==
    UNION {
        IF ~validation.IsValid
        THEN { CallRecord("invalid", validation.Message, NoOptions, 0, <<>>, FALSE,
                          FALSE, "Security validation failed") }
        ELSE { IF ~db.connect
               THEN CallRecord("valid", validation.Message, NoOptions, 1, <<>>, TRUE,
                               FALSE, "exception")
               ELSE IF ~db.execute
               THEN CallRecord("valid", validation.Message, NoOptions, 1,
                               << Command("nonquery", Verbatim(sql), FALSE) >>, FALSE,
                               FALSE, "Database update operation failed")
               ELSE CallRecord("valid", validation.Message, NoOptions, 1,
                               << Command("nonquery", Verbatim(sql), TRUE) >>, FALSE,
                               TRUE, "none")
               : db \in DotnetDb }
        : validation \in { ValidateUpdateQuery(sql) } }

\* /SET\s+SHOWPLAN_(XML|ALL|TEXT)\s+(ON|OFF)/i.test(query.toUpperCase())
hasShowplanCommands(query) ==
    IsMatch(<< LitCI(<<"S","E","T">>), Ws1, LitCI(<<"S","H","O","W","P","L","A","N","_">>), AltCI({<<"X","M","L">>, <<"A","L","L">>, <<"T","E","X","T">>}),
               Ws1, AltCI({<<"O","N">>, <<"O","F","F">>}) >>, ToUpper(query))

\* query.split(';').map(s => s.trim()).filter(s => s.length > 0)
\*      .filter(stmt => /^\s*SELECT/i.test(stmt))
extractSelectStatements(query) ==
    LET pieces == Split(query, ";")
        trimmed == [n \in 1..Len(pieces) |-> Trim(pieces[n])]
    IN  SelectSeq(trimmed, LAMBDA stmt : stmt # <<>> /\ MatchAtCI(stmt, 1, <<"S","E","L","E","C","T">>))

ShowplanTypes == { <<"X","M","L">>, <<"T","E","X","T">> }

\* captureExecutionPlan(selectQuery, showplanType): the batches it issues when
\* the database fails the failsAt-th of them (0: none); a failure ends the
\* try block, so the batches after the failing one are not issued
captureExecutionPlan(selectQuery, showplanType, failsAt) ==
    LET showplanCommand == <<"S","E","T"," ","S","H","O","W","P","L","A","N","_">> \o showplanType \o <<" ","O","N">>
        showplanOffCommand == <<"S","E","T"," ","S","H","O","W","P","L","A","N","_">> \o showplanType \o <<" ","O","F","F">>
        batches == << Literal(showplanCommand), Literal(selectQuery),
                      Literal(showplanOffCommand) >>
        issued == IF failsAt = 0 THEN 3 ELSE failsAt
    IN  [n \in 1..issued |-> Command("batch", batches[n], n # failsAt)]

StatisticsOn == <<"\n","S","E","T"," ","S","T","A","T","I","S","T","I","C","S"," ","I","O"," ","O","N",";","\n","S","E","T"," ","S","T","A","T","I","S","T","I","C","S"," ","T","I","M","E"," ","O","N",";","\n">>
StatisticsOff == <<"\n","S","E","T"," ","S","T","A","T","I","S","T","I","C","S"," ","I","O"," ","O","F","F",";","\n","S","E","T"," ","S","T","A","T","I","S","T","I","C","S"," ","T","I","M","E"," ","O","F","F",";">>

\* the options a caller of DBA_read_data can pass, and how the database
\* answers: which batch of the plan capture fails, whether the main batch does
DBAOptions == [captureExecutionPlan : BOOLEAN, captureStatistics : BOOLEAN,
               showplanType : ShowplanTypes]
DBADb == [planFailsAt : 0..3, main : BOOLEAN]

\* DBA_ReadDataTool.run(params), params.query = query
DBA_ReadDataTool_run(query) ==
    UNION {
        IF validation.completion = "throw"
        THEN { CallRecord("threw", Msg(validation.exception), NoOptions, 0, <<>>, FALSE,
                          FALSE, "DBA_QUERY_EXECUTION_FAILED") }
        ELSE IF ~validation.isValid
        THEN { CallRecord("invalid", validation.error, NoOptions, 0, <<>>, FALSE,
                          FALSE, "SECURITY_VALIDATION_FAILED") }
        ELSE
        LET selectStatements == extractSelectStatements(Chars(query))
            withShowplan == hasShowplanCommands(Chars(query))
            withStatistics == Contains(ToUpper(Chars(query)), <<"S","E","T"," ","S","T","A","T","I","S","T","I","C","S">>)
        IN  { LET planBatches ==
                      IF params.captureExecutionPlan /\ ~withShowplan /\ selectStatements # <<>>
                      THEN captureExecutionPlan(selectStatements[1], params.showplanType,
                                                db.planFailsAt)
                      ELSE <<>>
                  finalQuery ==
                      IF params.captureStatistics /\ ~withStatistics
                      THEN CommandText(StatisticsOn, query, StatisticsOff)
                      ELSE Verbatim(query)
              IN  IF db.main
                  THEN CallRecord("valid", validation.error, params, 0,
                                  planBatches \o << Command("batch", finalQuery, TRUE) >>,
                                  FALSE, TRUE, "none")
                  ELSE CallRecord("valid", validation.error, params, 0,
                                  planBatches \o << Command("batch", finalQuery, FALSE) >>,
                                  FALSE, FALSE, "DBA_QUERY_EXECUTION_FAILED")
              : params \in DBAOptions, db \in DBADb }
        : validation \in { validateDBAQuery(query) } }

\* run with the validation in a try of its own whose catch lets the call go on
ExecuteDDLTool_run_failOpen(ddl) ==
    UNION {
        IF validation.completion = "throw"
        THEN { CallRecord("threw", Msg(validation.exception), NoOptions, 0,
                          << Command("query", Verbatim(ddl), TRUE) >>, FALSE, TRUE, "none") }
        ELSE IF ~validation.isValid
        THEN { CallRecord("invalid", validation.error, NoOptions, 0, <<>>, FALSE,
                          FALSE, "SECURITY_VALIDATION_FAILED") }
        ELSE { CallRecord("valid", validation.error, NoOptions, 0,
                          << Command("query", Verbatim(ddl), TRUE) >>, FALSE, TRUE, "none") }
        : validation \in { validateDDL(ddl) } }

\* ExecuteDDLTool.run(params), params.ddl = ddl; the whole body is inside
\* try { } catch
ExecuteDDLTool_run(ddl) ==
    UNION {
        IF validation.completion = "throw"
        THEN { CallRecord("threw", Msg(validation.exception), NoOptions, 0, <<>>, FALSE,
                          FALSE, "DDL_EXECUTION_FAILED") }
        ELSE IF ~validation.isValid
        THEN { CallRecord("invalid", validation.error, NoOptions, 0, <<>>, FALSE,
                          FALSE, "SECURITY_VALIDATION_FAILED") }
        ELSE { IF executes
               THEN CallRecord("valid", validation.error, NoOptions, 0,
                               << Command("query", Verbatim(ddl), TRUE) >>, FALSE,
                               TRUE, "none")
               ELSE CallRecord("valid", validation.error, NoOptions, 0,
                               << Command("query", Verbatim(ddl), FALSE) >>, FALSE,
                               FALSE, "DDL_EXECUTION_FAILED")
               : executes \in BOOLEAN }
        : validation \in { validateDDL(ddl) } }

(***************************************************************************)
(* Calls of the raw-SQL tools.  A request names a tool and carries a text  *)
(* that is put together from fragments, possibly followed by a run of      *)
(* spaces that brings it to the tool's length limit or one past it.        *)
(***************************************************************************)
VARIABLES
    phase,         \* "compose": the request is being written; "called": the tool has run
    reqTool,       \* the tool the request names
    reqText,       \* the text of the request
    reqFrags,      \* how many fragments the text is made of
    lastCall,      \* the record of the call, once the tool has run
    env,           \* index.ts: process.env of the Node server
    isReadOnly,    \* index.ts: isReadOnly
    listed,        \* the tools of the last ListTools response
    calls,         \* the CallTool requests the Node server is handling
    globalSqlPool, \* index.ts: globalSqlPool, as an index into pools (0: null)
    pools,         \* the connection pools created so far
    readLoop       \* Tools.ReadData: the loop that collects the rows of the reader

sqlVars == << phase, reqTool, reqText, reqFrags, lastCall >>
serverVars == << env, isReadOnly, listed, calls, globalSqlPool, pools >>
rowVars == << readLoop >>
vars == << phase, reqTool, reqText, reqFrags, lastCall,
           env, isReadOnly, listed, calls, globalSqlPool, pools, readLoop >>

MaxFrags == 3

RawSqlTools == { "ReadData", "UpdateData", "DBA_ReadDataTool", "ExecuteDDLTool" }

Vocabulary(tool) ==
    CASE tool = "ReadData" ->
           { <<"S","E","L","E","C","T"," ","*"," ","F","R","O","M"," ","u","s","e","r","s">>, <<"s","e","l","e","c","t"," ","1">>, <<";">>, <<" ">>, <<"D","R","O","P">>, <<"d","r","o","p">>, <<"-","-">>,
             <<"\n">>, <<"/","*">>, <<"*","/">>, <<"x">>, <<"C","H","A","R","(">>, <<"-","/","*","*","/","-">>,
             <<" ","D","E","L","E","T","E","D","_","F","L","A","G">>, <<" "," "," ">> }
      [] tool = "UpdateData" ->
           { <<"U","P","D","A","T","E"," ","t"," ","S","E","T"," ","a","=","1">>, <<"U","P","D","A","T","E"," ","t"," ","S","E","T"," ","a","=","1"," ","W","H","E","R","E"," ","b","=","2">>, <<" ","w","h","e","r","e"," ","b","=","2">>, <<" ","W","H","E","R","E","(","b","=","2",")">>,
             <<";">>, <<" ">>,
             <<"D","R","O","P">>, <<"d","r","o","p">>, <<"-","-">>, <<"\n">>, <<"x">>, <<"U","P","D","A","T","E"," ","t"," ","S","E","T"," ","a","=","'"," ","W","H","E","R","E"," ","'">> }
      [] tool = "DBA_ReadDataTool" ->
           { <<"S","E","L","E","C","T"," ","1">>, <<"S","E","T"," ","S","T","A","T","I","S","T","I","C","S"," ","I","O"," ","O","N">>, <<"S","E","T"," ","S","H","O","W","P","L","A","N","_","X","M","L"," ","O","N">>, <<";">>, <<" ">>,
             <<"D","R","O","P">>, <<"d","e","l","e","t","e">>, <<"E","X","E","C"," ","p">>, <<"-","-">>, <<"\n">>, <<"x">> }
      [] tool = "ExecuteDDLTool" ->
           { <<"C","R","E","A","T","E"," ","T","A","B","L","E"," ","t"," ","(","i","d"," ","I","N","T",")">>, <<"C","R","E","A","T","E"," ","I","N","D","E","X"," ","i","x"," ","O","N"," ","t","(","i","d",")">>, <<"D","R","O","P"," ","T","A","B","L","E"," ","t">>,
             <<"S","E","L","E","C","T"," ","*"," ","F","R","O","M"," ","t">>, <<";">>, <<" ">>, <<"E","X","E","C">>, <<"-","-">>, <<"\n">>, <<"m","a","s","t","e","r",".">>, <<"x">>,
             <<";"," ">>, <<"C","R","E","A","T","E"," ","P","R","O","C","E","D","U","R","E"," ","p">>, <<"D","R","O","P"," ","T","A","B","L","E"," ","[","m","s","d","b","]",".","d","b","o",".","t">> }

MaxLength(tool) ==
    CASE tool = "ReadData" -> ReadMaxLength
      [] tool = "UpdateData" -> UpdateMaxLength
      [] tool = "DBA_ReadDataTool" -> DBAMaxLength
      [] tool = "ExecuteDDLTool" -> DDLMaxLength

\* the runs of spaces that bring a text to the length limit and one past it
Paddings(tool, chars) ==
    { MaxLength(tool) - Len(chars), MaxLength(tool) + 1 - Len(chars) }

(***************************************************************************)
(* The Node server (Node/src/index.ts).  A tool is named by the variable   *)
(* that holds its instance; a CallTool request names a tool by the         *)
(* instance's name property, and the names of distinct instances differ.   *)
(***************************************************************************)
\* tools: isReadOnly ? [ ... ]
ReadOnlyToolList == {
    "listTableTool", "readDataTool", "dbaReadDataTool", "describeTableTool",
    "dbaInsertDataTool", "listPartitionFunctionsTool", "sp_whoisactiveTool",
    "sp_blitzTool", "sp_pressureDetectorTool", "agentJobHealthTool",
    "availabilityGroupsTool", "backupStatusTool", "checkConnectivityTool",
    "databaseStatusTool", "ioHotspotsTool", "indexUsageStatsTool", "queryPlanTool",
    "waitStatsTool" }

\* tools: ... : [ ... ]
FullToolList == {
    "insertDataTool", "dbaInsertDataTool", "readDataTool", "dbaReadDataTool",
    "describeTableTool", "updateDataTool", "createTableTool", "createIndexTool",
    "dropTableTool", "listTableTool", "createPartitionFunctionTool",
    "createPartitionSchemeTool", "dropPartitionFunctionTool", "dropPartitionSchemeTool",
    "listPartitionFunctionsTool", "checkDBTool", "sp_whoisactiveTool", "sp_blitzTool",
    "sp_pressureDetectorTool", "agentJobHealthTool", "availabilityGroupsTool",
    "backupStatusTool", "checkConnectivityTool", "databaseStatusTool", "ioHotspotsTool",
    "indexUsageStatsTool", "queryPlanTool", "statisticsUpdateTool", "waitStatsTool" }

\* the cases of the switch in the CallTool handler
SwitchCases == {
    "insertDataTool", "dbaInsertDataTool", "readDataTool", "dbaReadDataTool",
    "updateDataTool", "createTableTool", "createIndexTool", "listTableTool",
    "dropTableTool", "describeTableTool", "createPartitionFunctionTool",
    "createPartitionSchemeTool", "dropPartitionFunctionTool", "dropPartitionSchemeTool",
    "listPartitionFunctionsTool", "checkDBTool", "sp_whoisactiveTool", "sp_blitzTool",
    "sp_pressureDetectorTool", "agentJobHealthTool", "availabilityGroupsTool",
    "backupStatusTool", "checkConnectivityTool", "databaseStatusTool", "ioHotspotsTool",
    "indexUsageStatsTool", "queryPlanTool", "statisticsUpdateTool", "waitStatsTool" }

\* the tools whose run changes data or schema: the write operations that the
\* full list adds to the read-only one
MutatingTools == {
    "insertDataTool", "updateDataTool", "createTableTool", "createIndexTool",
    "dropTableTool", "createPartitionFunctionTool", "createPartitionSchemeTool",
    "dropPartitionFunctionTool", "dropPartitionSchemeTool", "checkDBTool",
    "statisticsUpdateTool" }

\* DBA_InsertDataTool.run executes INSERT INTO target ... SELECT ... FROM source
InsertingTools == { "dbaInsertDataTool" }

\* the names a CallTool request can carry: every tool's, and one that is no tool's
RequestNames == SwitchCases \cup { "no_such_tool" }

\* args.serverName ("": not passed) and whether args.tableName is a string
ServerNames == { "", "A", "B" }
ToolArgs == [serverName : ServerNames, tableName : BOOLEAN]

\* process.env: READONLY, SERVER_LIST (split at ','), and whether
\* DATABASE_NAME, SQL_USER and SQL_PASSWORD are all set
Environments == [READONLY : {"true", "false", "unset"},
                 SERVER_LIST : { << >>, << "A", "B" >> },
                 credentials : BOOLEAN]

MaxCalls == 1
MaxPools == 2

\* createSqlConfig(serverName): the server of the config it returns, or the
\* Error it throws
createSqlConfig(environment, serverName) ==
    LET servers == environment.SERVER_LIST
        selectedServer == IF serverName # "" THEN serverName
                          ELSE IF Len(servers) > 0 THEN servers[1] ELSE ""
    IN  IF selectedServer = "" \/ ~environment.credentials
        THEN Throw("Error")
        ELSE [completion |-> "return", server |-> selectedServer]

\* a CallTool request in the handler: where it stands (pc), the tool it was
\* dispatched to, args.serverName, the server its tool body runs against, and
\* isError of its response
Slot(pc, tool, serverName, ranOn, isError) ==
    [pc |-> pc, tool |-> tool, serverName |-> serverName, ranOn |-> ranOn, isError |-> isError]
IdleSlot == Slot("idle", "none", "", "", FALSE)
Responded(tool, ranOn, isError) == Slot("responded", tool, "", ranOn, isError)

Pool(server, connected, closed) == [server |-> server, connected |-> connected, closed |-> closed]

InitServer ==
    /\ env \in Environments
    /\ isReadOnly = (env.READONLY = "true")
    /\ listed = {}
    /\ calls = [c \in 1..MaxCalls |-> IdleSlot]
    /\ globalSqlPool = 0
    /\ pools = << >>

\* the ListTools handler
ListTools ==
    /\ listed' = IF isReadOnly THEN ReadOnlyToolList ELSE FullToolList
    /\ UNCHANGED << env, isReadOnly, calls, globalSqlPool, pools >>

\* ensureSqlConnection from createSqlConfig on: the config is made, and
\* sql.connect is awaited; an Error thrown by createSqlConfig reaches the
\* catch of the CallTool handler
Configure(c, tool, serverName) ==
    LET config == createSqlConfig(env, serverName)
    IN  IF config.completion = "throw"
        THEN calls' = [calls EXCEPT ![c] = Responded(tool, "", TRUE)]
        ELSE calls' = [calls EXCEPT ![c] = Slot("connecting", tool, serverName, config.server, FALSE)]

\* the CallTool handler up to its first await: the switch on the name, and the
\* wrapped run of the tool (wrapToolRun) up to the first await of
\* ensureSqlConnection
CallTool(c, name, args) ==
    /\ calls[c].pc \in {"idle", "responded"}
    /\ IF name \notin SwitchCases
       THEN \* default: Unknown tool
            /\ calls' = [calls EXCEPT ![c] = Responded("none", "", TRUE)]
            /\ UNCHANGED pools
       ELSE IF name = "describeTableTool" /\ ~args.tableName
       THEN /\ calls' = [calls EXCEPT ![c] = Responded("none", "", TRUE)]
            /\ UNCHANGED pools
       ELSE IF globalSqlPool # 0 /\ pools[globalSqlPool].connected
       THEN \* ensureSqlConnection returns at once; originalRun(args)
            /\ calls' = [calls EXCEPT ![c] =
                            Slot("running", name, args.serverName, pools[globalSqlPool].server, FALSE)]
            /\ UNCHANGED pools
       ELSE IF globalSqlPool # 0
       THEN \* await globalSqlPool.close()
            /\ pools' = [pools EXCEPT ![globalSqlPool].closed = TRUE]
            /\ calls' = [calls EXCEPT ![c] = Slot("closing", name, args.serverName, "", FALSE)]
       ELSE /\ Configure(c, name, args.serverName)
            /\ UNCHANGED pools
    /\ UNCHANGED << env, isReadOnly, listed, globalSqlPool >>

\* globalSqlPool.close() has settled (a rejection is caught and logged)
CloseDone(c) ==
    /\ calls[c].pc = "closing"
    /\ Configure(c, calls[c].tool, calls[c].serverName)
    /\ UNCHANGED << env, isReadOnly, listed, globalSqlPool, pools >>

\* the wrapped run going on to the tool's own run whatever sql.connect gave
ConnectDone_runsAnyway(c, connected) ==
    /\ calls[c].pc = "connecting"
    /\ calls' = [calls EXCEPT ![c].pc = "running"]
    /\ UNCHANGED << env, isReadOnly, listed, globalSqlPool, pools >>

\* sql.connect(config) has settled: globalSqlPool is assigned and
\* originalRun(args) is called, or the rejection reaches the handler's catch
ConnectDone(c, connected) ==
    /\ calls[c].pc = "connecting"
    /\ IF connected
       THEN /\ Len(pools) < MaxPools
            /\ pools' = Append(pools, Pool(calls[c].ranOn, TRUE, FALSE))
            /\ globalSqlPool' = Len(pools) + 1
            /\ calls' = [calls EXCEPT ![c].pc = "running"]
       ELSE /\ calls' = [calls EXCEPT ![c] = Responded(calls[c].tool, "", TRUE)]
            /\ UNCHANGED << globalSqlPool, pools >>
    /\ UNCHANGED << env, isReadOnly, listed >>

\* the tool's own run has settled: its result is returned, or what it threw
\* reaches the handler's catch
RunDone(c, threw) ==
    /\ calls[c].pc = "running"
    /\ calls' = [calls EXCEPT ![c] = Responded(calls[c].tool, calls[c].ranOn, threw)]
    /\ UNCHANGED << env, isReadOnly, listed, globalSqlPool, pools >>

\* the pool loses its connection to the server
PoolDisconnects ==
    /\ globalSqlPool # 0
    /\ pools[globalSqlPool].connected
    /\ pools' = [pools EXCEPT ![globalSqlPool].connected = FALSE]
    /\ UNCHANGED << env, isReadOnly, listed, calls, globalSqlPool >>

(***************************************************************************)
(* Interleaved CallTool requests: the handler is async, so a second        *)
(* request can enter it while the first one waits at an await.             *)
(***************************************************************************)
MaxInterleaved == 2

\* the requests of the interleaving: one tool, any serverName
InterleavedArgs == [serverName : ServerNames, tableName : {TRUE}]
InterleavedEnvironments == [READONLY : {"unset"}, SERVER_LIST : { << "A", "B" >> },
                            credentials : {TRUE}]

(***************************************************************************)
(* A dbaReadDataTool request through the handler: the wrapped run calls    *)
(* DBA_ReadDataTool.run with the text of the request.                      *)
(***************************************************************************)
DispatchedTexts == { SqlText(<<"S","E","L","E","C","T"," ","1">>, 0), SqlText(<<"D","R","O","P"," ","T","A","B","L","E"," ","t">>, 0) }

\* originalRun(args) of dbaReadDataTool: DBA_ReadDataTool.run(params) from its
\* validation to its result
RunDBARead(c) ==
    /\ calls[c].pc = "running"
    /\ calls[c].tool = "dbaReadDataTool"
    /\ lastCall' \in DBA_ReadDataTool_run(reqText)
    /\ phase' = "called"
    /\ calls' = [calls EXCEPT ![c] = Responded(calls[c].tool, calls[c].ranOn, lastCall'.raised)]
    /\ UNCHANGED << reqTool, reqText, reqFrags, env, isReadOnly, listed, globalSqlPool, pools >>

(***************************************************************************)
(* The loop of Tools.ReadData that collects the rows of the reader.  The   *)
(* list of rows is kept as its Count, the reader row its last element was  *)
(* made from, and whether its k-th element was made from the k-th row of   *)
(* the reader for every k.                                                 *)
(***************************************************************************)
\* const int maxRecords = 10000;
maxRecords == 10000

\* the cap tested after the row is added
WithinCap_inclusive(recordCount) == recordCount <= maxRecords
\* recordCount < maxRecords
WithinCap(recordCount) == recordCount < maxRecords

\* new List<Dictionary<string, object?>>() and results.Add(row)
EmptyList == [Count |-> 0, last |-> 0, inOrder |-> TRUE]
Add(list, row) ==
    [Count |-> list.Count + 1, last |-> row, inOrder |-> list.inOrder /\ row = list.Count + 1]

\* the loop: where it stands, the number of rows of the result set, the row
\* the reader is at, recordCount, results, and success of the result returned
ReadLoop(pc, rows, position, recordCount, results, success) ==
    [pc |-> pc, rows |-> rows, position |-> position, recordCount |-> recordCount,
     results |-> results, success |-> success]
IdleLoop == ReadLoop("idle", 0, 0, 0, EmptyList, FALSE)

\* the sizes of result set looked at: around none and around the cap
ResultSetSizes == { 0, 1, maxRecords - 1, maxRecords, maxRecords + 1 }

\* cmd.ExecuteReaderAsync() has given a reader over rows rows
ExecuteReader(rows) ==
    /\ readLoop.pc \in {"idle", "returned"}
    /\ readLoop' = ReadLoop("loop", rows, 0, 0, EmptyList, FALSE)
    /\ UNCHANGED << sqlVars, serverVars >>

\* one evaluation of the loop condition, and the body when it holds:
\* reader.ReadAsync() moves the reader to the next row if there is one, and
\* only then is recordCount compared with the cap; when the condition fails
\* the list is returned
ReadAsync ==
    /\ readLoop.pc = "loop"
    /\ IF readLoop.position < readLoop.rows
       THEN IF WithinCap(readLoop.recordCount)
            THEN readLoop' = [readLoop EXCEPT
                                 !.position = @ + 1,
                                 !.results = Add(@, readLoop.position + 1),
                                 !.recordCount = @ + 1]
            ELSE readLoop' = [readLoop EXCEPT !.position = @ + 1, !.pc = "returned",
                                              !.success = TRUE]
       ELSE readLoop' = [readLoop EXCEPT !.pc = "returned", !.success = TRUE]
    /\ UNCHANGED << sqlVars, serverVars >>

\* reader.ReadAsync() throws: the catch returns a result without data
ReadAsyncThrows ==
    /\ readLoop.pc = "loop"
    /\ readLoop' = ReadLoop("returned", readLoop.rows, readLoop.position, 0, EmptyList, FALSE)
    /\ UNCHANGED << sqlVars, serverVars >>
(***************************************************************************)
(* The specifications                                                      *)
(***************************************************************************)
\* the raw-SQL tools called directly: the Node server stands still
ServerIdle ==
    /\ env = [READONLY |-> "unset", SERVER_LIST |-> << >>, credentials |-> FALSE]
    /\ isReadOnly = FALSE
    /\ listed = {}
    /\ calls = [c \in 1..MaxCalls |-> IdleSlot]
    /\ globalSqlPool = 0
    /\ pools = << >>

\* the Node server alone: no raw-SQL request is written
NoRequest ==
    /\ phase = "none"
    /\ reqTool = "none"
    /\ reqText = SqlText(<<>>, 0)
    /\ reqFrags = 0
    /\ lastCall = NoCall




Init ==
    /\ phase = "compose"
    /\ reqTool \in RawSqlTools
    /\ reqText = SqlText(<<>>, 0)
    /\ reqFrags = 0
    /\ lastCall = NoCall
    /\ ServerIdle
    /\ readLoop = IdleLoop

\* the caller writes the next fragment of the text
Type(fragment) ==
    /\ phase = "compose"
    /\ reqFrags < MaxFrags
    /\ reqText.pad = 0
    /\ fragment \in Vocabulary(reqTool)
    /\ reqText' = SqlText(reqText.chars \o fragment, 0)
    /\ reqFrags' = reqFrags + 1
    /\ UNCHANGED << phase, reqTool, lastCall, serverVars, rowVars >>

\* the caller ends the text with a run of spaces
Pad(spaces) ==
    /\ phase = "compose"
    /\ reqFrags < MaxFrags
    /\ reqText.pad = 0
    /\ spaces \in Paddings(reqTool, reqText.chars)
    /\ reqText' = SqlText(reqText.chars, spaces)
    /\ reqFrags' = reqFrags + 1
    /\ UNCHANGED << phase, reqTool, lastCall, serverVars, rowVars >>

CallReadData ==
    /\ phase = "compose" /\ reqTool = "ReadData"
    /\ lastCall' \in ReadData(reqText)
    /\ phase' = "called"
    /\ UNCHANGED << reqTool, reqText, reqFrags, serverVars, rowVars >>

CallUpdateData ==
    /\ phase = "compose" /\ reqTool = "UpdateData"
    /\ lastCall' \in UpdateData(reqText)
    /\ phase' = "called"
    /\ UNCHANGED << reqTool, reqText, reqFrags, serverVars, rowVars >>

CallDBA_ReadDataTool ==
    /\ phase = "compose" /\ reqTool = "DBA_ReadDataTool"
    /\ lastCall' \in DBA_ReadDataTool_run(reqText)
    /\ phase' = "called"
    /\ UNCHANGED << reqTool, reqText, reqFrags, serverVars, rowVars >>

CallExecuteDDLTool ==
    /\ phase = "compose" /\ reqTool = "ExecuteDDLTool"
    /\ lastCall' \in ExecuteDDLTool_run(reqText)
    /\ phase' = "called"
    /\ UNCHANGED << reqTool, reqText, reqFrags, serverVars, rowVars >>

\* the caller starts over with a new request
NewRequest ==
    /\ phase = "called"
    /\ phase' = "compose"
    /\ reqTool' \in RawSqlTools
    /\ reqText' = SqlText(<<>>, 0)
    /\ reqFrags' = 0
    /\ lastCall' = NoCall
    /\ UNCHANGED << serverVars, rowVars >>

Next ==
    \/ \E fragment \in Vocabulary(reqTool) : Type(fragment)
    \/ \E spaces \in Paddings(reqTool, reqText.chars) : Pad(spaces)
    \/ CallReadData
    \/ CallUpdateData
    \/ CallDBA_ReadDataTool
    \/ CallExecuteDDLTool
    \/ NewRequest

Spec == Init /\ [][Next]_vars

InitNode == NoRequest /\ InitServer /\ readLoop = IdleLoop

NextNode ==
    \/ ListTools /\ UNCHANGED << sqlVars, rowVars >>
    \/ \E c \in 1..MaxCalls, name \in RequestNames, args \in ToolArgs :
           CallTool(c, name, args) /\ UNCHANGED << sqlVars, rowVars >>
    \/ \E c \in 1..MaxCalls : CloseDone(c) /\ UNCHANGED << sqlVars, rowVars >>
    \/ \E c \in 1..MaxCalls, connected \in BOOLEAN : ConnectDone(c, connected) /\ UNCHANGED << sqlVars, rowVars >>
    \/ \E c \in 1..MaxCalls, threw \in BOOLEAN : RunDone(c, threw) /\ UNCHANGED << sqlVars, rowVars >>
    \/ PoolDisconnects /\ UNCHANGED << sqlVars, rowVars >>

SpecNode == InitNode /\ [][NextNode]_vars


\* two CallTool requests in the handler at once
InitInterleaved ==
    /\ NoRequest
    /\ env \in InterleavedEnvironments
    /\ isReadOnly = (env.READONLY = "true")
    /\ listed = {}
    /\ calls = [c \in 1..MaxInterleaved |-> IdleSlot]
    /\ globalSqlPool = 0
    /\ pools = << >>
    /\ readLoop = IdleLoop

NextInterleaved ==
    \/ \E c \in 1..MaxInterleaved, args \in InterleavedArgs :
           CallTool(c, "readDataTool", args) /\ UNCHANGED << sqlVars, rowVars >>
    \/ \E c \in 1..MaxInterleaved : CloseDone(c) /\ UNCHANGED << sqlVars, rowVars >>
    \/ \E c \in 1..MaxInterleaved, connected \in BOOLEAN :
           ConnectDone(c, connected) /\ UNCHANGED << sqlVars, rowVars >>
    \/ \E c \in 1..MaxInterleaved, threw \in BOOLEAN :
           RunDone(c, threw) /\ UNCHANGED << sqlVars, rowVars >>
    \/ PoolDisconnects /\ UNCHANGED << sqlVars, rowVars >>

SpecInterleaved == InitInterleaved /\ [][NextInterleaved]_vars

\* dbaReadDataTool called through the handler with a text
InitDispatch ==
    /\ phase = "compose"
    /\ reqTool = "DBA_ReadDataTool"
    /\ reqText \in DispatchedTexts
    /\ reqFrags = 1
    /\ lastCall = NoCall
    /\ InitServer
    /\ readLoop = IdleLoop

NextDispatch ==
    \/ \E c \in 1..MaxCalls, args \in ToolArgs :
           CallTool(c, "dbaReadDataTool", args) /\ UNCHANGED << sqlVars, rowVars >>
    \/ \E c \in 1..MaxCalls : CloseDone(c) /\ UNCHANGED << sqlVars, rowVars >>
    \/ \E c \in 1..MaxCalls, connected \in BOOLEAN :
           ConnectDone(c, connected) /\ UNCHANGED << sqlVars, rowVars >>
    \/ \E c \in 1..MaxCalls : RunDBARead(c) /\ UNCHANGED rowVars
    \/ PoolDisconnects /\ UNCHANGED << sqlVars, rowVars >>

SpecDispatch == InitDispatch /\ [][NextDispatch]_vars

\* the row loop of ReadData alone
InitRows == NoRequest /\ ServerIdle /\ readLoop = IdleLoop

NextRows ==
    \/ \E rows \in ResultSetSizes : ExecuteReader(rows)
    \/ ReadAsync
    \/ ReadAsyncThrows

SpecRows == InitRows /\ [][NextRows]_vars
(***************************************************************************)
(* Properties                                                              *)
(***************************************************************************)
Called(tool) == phase = "called" /\ reqTool = tool
Validated(status) == phase = "called" /\ lastCall.validation.status = status
NoCommandAndFailure ==
    lastCall.commands = <<>> /\ ~lastCall.raised /\ ~lastCall.result.success

\* C1: in every raw-SQL tool, a call whose validator returned isValid = false
\* issues no database command and gives the caller a failure result.
FailClosedDispatch == Validated("invalid") => NoCommandAndFailure

\* a ReadData call whose text the validator rejected for a denied keyword
FailClosedDispatch_Witness ==
    /\ Called("ReadData") /\ Validated("invalid")
    /\ lastCall.validation.message.keyword = <<"D","R","O","P">>
    /\ lastCall.result.error = "Security validation failed"

\* C2: when the validator fails with an internal error (validateDDL reading
\* this.ALLOWED_DDL_KEYWORDS), the call ends in a rejection: the text is not
\* treated as valid and no database command is issued.
FailClosedOnInternalError == Validated("threw") => NoCommandAndFailure

\* an execute_ddl call whose validation threw on the text CREATE TABLE t (id INT)
FailClosedOnInternalError_Witness ==
    /\ Called("ExecuteDDLTool") /\ Validated("threw")
    /\ reqText = SqlText(<<"C","R","E","A","T","E"," ","T","A","B","L","E"," ","t"," ","(","i","d"," ","I","N","T",")">>, 0)
    /\ lastCall.result.error = "DDL_EXECUTION_FAILED"

\* C3: each validator returns a validation result and never throws, whatever
\* the text: empty, whitespace only, comments only, or non-empty once the
\* comments are removed.
ValidatorsNeverThrow == phase = "called" => lastCall.validation.status # "threw"

\* C4: when READONLY is "true", a CallTool request naming a mutating tool is
\* blocked: that tool's run is never invoked.
ReadOnlyBlocksMutatingTools ==
    isReadOnly =>
        \A c \in 1..MaxCalls : calls[c].pc = "running" => calls[c].tool \notin MutatingTools

\* C5: when READONLY is "true", ListTools advertises observational tools only:
\* no tool that inserts, updates, deletes or defines data, and not
\* DBA_insert_data.
ReadOnlyListIsObservational ==
    (isReadOnly /\ listed # {}) => listed \cap (MutatingTools \cup InsertingTools) = {}

\* the text a validator scans for keywords: comments removed, whitespace
\* normalized, as the tool's validator does it
Normalized(tool, text) ==
    IF tool \in {"ReadData", "UpdateData"}
    THEN CleanQuery(Chars(text))
    ELSE JsClean(Chars(text))

Denylist(tool) ==
    CASE tool = "ReadData" -> DangerousKeywords
      [] tool = "UpdateData" -> updateDangerousKeywords
      [] tool = "DBA_ReadDataTool" -> DBA_DANGEROUS_KEYWORDS
      [] tool = "ExecuteDDLTool" -> DDL_DANGEROUS_KEYWORDS

\* keyword occurs in s, in any letter case, with no letter, digit or underscore
\* right before or right after it
Standalone(keyword, s) ==
    \E i \in 1..Len(s) :
        /\ MatchAtCI(s, i, ToUpper(keyword))
        /\ ~WordAt(s, i - 1)
        /\ ~WordAt(s, i + Len(keyword))

HasDeniedKeyword(tool, s) ==
    \E k \in 1..Len(Denylist(tool)) : Standalone(Denylist(tool)[k], s)

\* C6: for every validator, a text that holds a keyword of the validator's
\* denylist as a standalone token outside a comment is rejected with
\* isValid = false and a reason that names that keyword.
DeniedKeywordIsNamed ==
    phase = "called" =>
        \A k \in 1..Len(Denylist(reqTool)) :
            Standalone(Denylist(reqTool)[k], Normalized(reqTool, reqText)) =>
                /\ lastCall.validation.status = "invalid"
                /\ lastCall.validation.message.keyword = Denylist(reqTool)[k]

NonEmptyStatements(s) ==
    LET pieces == Split(s, ";")
    IN  Cardinality({n \in 1..Len(pieces) : Trim(pieces[n]) # <<>>})

\* the conditions of C7 on a text
ReadConditions(sql) ==
    LET normalized == CleanQuery(Chars(sql))
    IN  /\ normalized # <<>>
        /\ MatchAtCI(normalized, 1, <<"S","E","L","E","C","T">>)
        /\ ~HasDeniedKeyword("ReadData", normalized)
        /\ NonEmptyStatements(normalized) <= 1
        /\ ~MatchesAny(DangerousPatterns, Chars(sql))
        /\ ~ContainsCI(Chars(sql), <<"C","H","A","R","(">>)
        /\ ~ContainsCI(Chars(sql), <<"N","C","H","A","R","(">>)
        /\ ~ContainsCI(Chars(sql), <<"A","S","C","I","I","(">>)
        /\ Length(sql) <= ReadMaxLength

PlainSelects ==
    { SqlText(<<"S","E","L","E","C","T"," ","*"," ","F","R","O","M"," ","u","s","e","r","s">>, 0), SqlText(<<"S","E","L","E","C","T"," ","*"," ","F","R","O","M"," ","u","s","e","r","s",";">>, 0) }

SingleStatementOnly ==
    (phase = "called" /\ reqTool \in {"ReadData", "UpdateData"}
        /\ NonEmptyStatements(Normalized(reqTool, reqText)) > 1)
    => lastCall.validation.status # "valid"

\* UpdateData rejected a guarded UPDATE followed by a second statement, for
\* being more than one statement
SingleStatementOnly_Witness ==
    /\ Called("UpdateData") /\ Validated("invalid")
    /\ reqText = SqlText(<<"U","P","D","A","T","E"," ","t"," ","S","E","T"," ","a","=","1"," ","W","H","E","R","E"," ","b","=","2",";","x">>, 0)
    /\ lastCall.validation.message.text =
          "Multiple SQL statements are not allowed. Use only a single UPDATE statement."

\* the precondition of C9: starts with UPDATE, one statement, no denied
\* keyword, within the length limit
UpdatePreconditions(sql) ==
    LET normalized == CleanQuery(Chars(sql))
    IN  /\ MatchAtCI(normalized, 1, <<"U","P","D","A","T","E">>)
        /\ NonEmptyStatements(normalized) <= 1
        /\ ~HasDeniedKeyword("UpdateData", normalized)
        /\ Length(sql) <= UpdateMaxLength

MissingWhereReason ==
    "UPDATE queries must include a WHERE clause for security reasons"

TooLongReason(tool) ==
    CASE tool \in {"ReadData", "UpdateData"} ->
           "Query is too long. Maximum allowed length is 10,000 characters."
      [] tool = "DBA_ReadDataTool" ->
           "Query batch is too long. Maximum allowed length is 50,000 characters."
      [] tool = "ExecuteDDLTool" ->
           "DDL statement is too long. Maximum allowed length is 50,000 characters."

\* the rules of validateDDL other than the length limit, with the lists the
\* class declares
DDLRulesHold(ddl) ==
    LET cleanDDL == JsClean(Chars(ddl))
        upperDDL == ToUpper(cleanDDL)
        statements == DDLStatements(cleanDDL)
    IN  /\ SomeStartsWith(ALLOWED_DDL_KEYWORDS, upperDDL)
        /\ (StartsWith(upperDDL, <<"C","R","E","A","T","E"," ">>) \/ StartsWith(upperDDL, <<"A","L","T","E","R"," ">>))
              => SomeIncluded(ALLOWED_OBJECT_TYPES, upperDDL)
        /\ ~HasDeniedKeyword("ExecuteDDLTool", cleanDDL)
        /\ ~MatchesAny(DDL_DANGEROUS_PATTERNS, Chars(ddl))
        /\ \A n \in 1..Len(statements) :
              SomeStartsWith(ALLOWED_DDL_KEYWORDS, ToUpper(Trim(statements[n])))
        /\ ~Contains(Chars(ddl), <<"C","H","A","R","(">>) /\ ~Contains(Chars(ddl), <<"A","S","C","I","I","(">>)
        /\ ~IsMatch(systemDbPattern, Chars(ddl))

\* the text without its trailing run of spaces but one: the same to every
\* check except the length limit
Unpadded(text) == SqlText(text.chars, IF text.pad > 0 THEN 1 ELSE 0)

\* text passes every check of the tool's validator other than the length limit
PassesOtherChecks(tool, text) ==
    CASE tool = "ReadData" -> ValidateReadQuery(Unpadded(text)).IsValid
      [] tool = "UpdateData" -> ValidateUpdateQuery(Unpadded(text)).IsValid
      [] tool = "DBA_ReadDataTool" -> validateDBAQuery(Unpadded(text)).isValid
      [] tool = "ExecuteDDLTool" -> DDLRulesHold(text)

\* C10: for each validator with maximum M, a text that passes every other
\* check is accepted when its length is exactly M and rejected for being too
\* long when its length is M + 1.
LengthBoundary ==
    (phase = "called" /\ PassesOtherChecks(reqTool, reqText)) =>
        /\ Length(reqText) = MaxLength(reqTool) => lastCall.validation.status = "valid"
        /\ Length(reqText) = MaxLength(reqTool) + 1 =>
              /\ lastCall.validation.status = "invalid"
              /\ lastCall.validation.message.text = TooLongReason(reqTool)


(***************************************************************************)
(* Batches of the DDL tool and of the DBA read tool                        *)
(***************************************************************************)
\* the candidate statements of a text: the pieces of the normalized text
\* between semicolons, trimmed, the blank ones left out
CandidateStatements(tool, text) ==
    LET pieces == Split(Normalized(tool, text), ";")
        trimmed == [n \in 1..Len(pieces) |-> Trim(pieces[n])]
    IN  SelectSeq(trimmed, LAMBDA stmt : stmt # <<>>)

\* stmt starts with the word, in any letter case, as a token of its own
StartsWithWord(stmt, word) == MatchAtCI(stmt, 1, word) /\ ~WordAt(stmt, Len(word) + 1)

StartsWithAllowedVerb(stmt) ==
    \E k \in 1..Len(ALLOWED_DDL_KEYWORDS) : StartsWithWord(stmt, ALLOWED_DDL_KEYWORDS[k])

NamesAllowedObjectType(stmt) ==
    \E k \in 1..Len(ALLOWED_OBJECT_TYPES) : Standalone(ALLOWED_OBJECT_TYPES[k], stmt)

\* every statement of the batch starts with an allowed verb and names an
\* allow-listed object type, the text passes every rule of validateDDL as the
\* class declares them, and it is within the length limit
AllowedBatch(ddl) ==
    LET statements == CandidateStatements("ExecuteDDLTool", ddl)
    IN  /\ statements # <<>>
        /\ \A n \in 1..Len(statements) :
              StartsWithAllowedVerb(statements[n]) /\ NamesAllowedObjectType(statements[n])
        /\ DDLRulesHold(ddl)
        /\ Length(ddl) <= DDLMaxLength

\* C11: validateDDL accepts a batch whose statements all start with an allowed
\* verb and name an allow-listed object type and whose text holds no denied
\* keyword, pattern or protected target, and ExecuteDDLTool.run then executes
\* the text.
AllowedBatchIsExecuted ==
    (Called("ExecuteDDLTool") /\ AllowedBatch(reqText)) =>
        /\ lastCall.validation.status = "valid"
        /\ Len(lastCall.commands) = 1
        /\ lastCall.commands[1].text = Verbatim(reqText)

\* the leading-verb and object-type checks on one statement
StatementPasses(stmt) ==
    /\ StartsWithAllowedVerb(stmt)
    /\ (StartsWithWord(stmt, <<"C","R","E","A","T","E">>) \/ StartsWithWord(stmt, <<"A","L","T","E","R">>))
          => NamesAllowedObjectType(stmt)

HasFailingStatement(ddl) ==
    LET statements == CandidateStatements("ExecuteDDLTool", ddl)
    IN  \E n \in 1..Len(statements) : ~StatementPasses(statements[n])

ProtectedQualifiers ==
    { <<"m","a","s","t","e","r">>, <<"m","s","d","b">>, <<"m","o","d","e","l">>, <<"t","e","m","p","d","b">>, <<"s","y","s">>, <<"I","N","F","O","R","M","A","T","I","O","N","_","S","C","H","E","M","A">> }

\* s names a protected database or schema as a qualifier: the name, in any
\* letter case, plain or in brackets, followed by a dot
ReferencesProtected(s) ==
    \E name \in ProtectedQualifiers : \E i \in 1..Len(s) :
        /\ MatchAtCI(s, i, ToUpper(name))
        /\ ~WordAt(s, i - 1)
        /\ \/ MatchAt(s, i + Len(name), <<".">>)
           \/ MatchAt(s, i - 1, <<"[">>) /\ MatchAt(s, i + Len(name), <<"]",".">>)

IsDiagnosticStatement(stmt) ==
    \/ StartsWithWord(stmt, <<"S","E","L","E","C","T">>)
    \/ MatchFrom(<< LitCI(<<"S","E","T">>), Ws1, LitCI(<<"S","T","A","T","I","S","T","I","C","S">>), Ws1 >>, 1, stmt, 1)
    \/ MatchFrom(<< LitCI(<<"S","E","T">>), Ws1, LitCI(<<"S","H","O","W","P","L","A","N","_">>) >>, 1, stmt, 1)

\* C14: validateDBAQuery accepts a batch only if every statement of it is a
\* SELECT or a whitelisted diagnostic toggle; a batch with any other statement
\* next to a SELECT (EXEC of a procedure, WAITFOR) is rejected.
OnlyDiagnosticStatements ==
    (Called("DBA_ReadDataTool") /\ Validated("valid")) =>
        LET statements == CandidateStatements("DBA_ReadDataTool", reqText)
        IN  \A n \in 1..Len(statements) : IsDiagnosticStatement(statements[n])

\* the rule of the list that matches s first, as its index; 0 when none does
FirstPattern(patterns, s) ==
    LET hits == {k \in 1..Len(patterns) : IsMatch(patterns[k], s)}
    IN  IF hits = {} THEN 0 ELSE MinOf(hits)

ReadPatternReason ==
    "Potentially malicious SQL pattern detected. Only simple SELECT queries are allowed."

\* two read queries that the Pattern Scanner rejects: a UNION SELECT, and a
\* second statement after a semicolon
UnionSelectQuery == SqlText(<<"S","E","L","E","C","T"," ","*"," ","F","R","O","M"," ","a"," ","U","N","I","O","N"," ","S","E","L","E","C","T"," ","*"," ","F","R","O","M"," ","p","a","s","s","w","o","r","d","s">>, 0)
ChainedQuery == SqlText(<<"S","E","L","E","C","T"," ","1",";","x">>, 0)
UnionSelectResult ==
    [ rule |-> FirstPattern(DangerousPatterns, Chars(UnionSelectQuery)),
      result |-> ValidateReadQuery(UnionSelectQuery) ]
ChainedResult ==
    [ rule |-> FirstPattern(DangerousPatterns, Chars(ChainedQuery)),
      result |-> ValidateReadQuery(ChainedQuery) ]

\* C15: each pattern rule has a reason of its own: a text that the Pattern
\* Scanner rejects gets a reason that tells which rule matched, so its reason
\* differs from the reason of a text rejected by another rule (the UNION
\* SELECT query, the chained query).
PatternReasonsAreDistinct ==
    (Called("ReadData") /\ Validated("invalid")
        /\ lastCall.validation.message.text = ReadPatternReason) =>
        \A other \in {UnionSelectResult, ChainedResult} :
            (~other.result.IsValid /\ other.result.Message.text = ReadPatternReason
                /\ other.rule # FirstPattern(DangerousPatterns, Chars(reqText)))
            => other.result.Message # lastCall.validation.message

\* a validation result carries a reason
HasReason(message) == message # NoError

\* C16: a validation result carries a reason only when isValid is false: none
\* when isValid is true, one when isValid is false.
ReasonOnlyWhenInvalid ==
    /\ Validated("valid") => ~HasReason(lastCall.validation.message)
    /\ Validated("invalid") => HasReason(lastCall.validation.message)

\* the normalization of a tool's validator on a text
Normalize(tool, s) ==
    IF tool \in {"ReadData", "UpdateData"} THEN CleanQuery(s) ELSE JsClean(s)

\* C17: normalization (line comments removed, block comments removed,
\* whitespace collapsed, trimmed) is idempotent: normalizing a normalized text
\* gives the same text, also when removing a block comment joins characters
\* into a new comment opener.
NormalizeIsIdempotent ==
    phase = "called" =>
        Normalize(reqTool, Normalize(reqTool, Chars(reqText))) = Normalize(reqTool, Chars(reqText))

\* C18: when validation succeeds, every command the tool sends to the database
\* in that call is the caller's text itself, nothing added, removed or split
\* off.
ForwardsOriginalText ==
    Validated("valid") =>
        \A n \in 1..Len(lastCall.commands) : lastCall.commands[n].text = Verbatim(reqText)

\* C19: a tool call that passes serverName = S runs on a pool connected to S,
\* whatever calls were made before it.
RunsOnRequestedServer ==
    \A c \in 1..MaxCalls :
        (calls[c].pc = "running" /\ calls[c].serverName # "") =>
            calls[c].ranOn = calls[c].serverName

EmptyInputReasons ==
    { "Query must be a non-empty string", "Query cannot be empty after removing comments",
      "DDL statement must be a non-empty string",
      "DDL statement cannot be empty after removing comments" }

\* C20: every validator rejects, with an empty-input reason, a text that is
\* empty, whitespace only, or empty once its comments are removed.
EmptyInputRejected ==
    (phase = "called" /\ Normalize(reqTool, Chars(reqText)) = <<>>) =>
        /\ lastCall.validation.status = "invalid"
        /\ lastCall.validation.message.text \in EmptyInputReasons
        /\ NoCommandAndFailure

\* execute_ddl called with a text that is one line comment: rejected as empty
\* after removing comments
EmptyInputRejected_Witness ==
    /\ Called("ExecuteDDLTool")
    /\ reqText = SqlText(<<"-","-","x">>, 0)
    /\ Normalize(reqTool, Chars(reqText)) = <<>>
    /\ Validated("invalid")
    /\ lastCall.validation.message.text = "DDL statement cannot be empty after removing comments"

(***************************************************************************)
(* The scanners and the order of the checks                                *)
(***************************************************************************)
\* the first keyword of the tool's denylist with a standalone occurrence in
\* s, as its index; 0 when there is none
FirstStandalone(tool, s) ==
    LET hits == {k \in 1..Len(Denylist(tool)) : Standalone(Denylist(tool)[k], s)}
    IN  IF hits = {} THEN 0 ELSE MinOf(hits)

\* the checks that come before the keyword scan pass, so that the scan runs;
\* validateDDL ends before its scan for every text
KeywordScanRuns(tool, text) ==
    LET normalized == Normalized(tool, text)
    IN  CASE tool = "ReadData" -> normalized # <<>> /\ MatchAtCI(normalized, 1, <<"S","E","L","E","C","T">>)
          [] tool = "UpdateData" ->
                /\ normalized # <<>>
                /\ MatchAtCI(normalized, 1, <<"U","P","D","A","T","E">>)
                /\ ContainsCI(normalized, <<" ","W","H","E","R","E"," ">>)
          [] tool = "DBA_ReadDataTool" -> normalized # <<>>
          [] tool = "ExecuteDDLTool" -> FALSE

\* C21: the keyword scan reports a keyword K of the denylist exactly when the
\* text has an occurrence of K, in any letter case, with no letter, digit or
\* underscore right before it and none right after it: the keyword regex
\* of validateDDL, which no call reaches, matches exactly then, and the keyword
\* named by a scan that runs is the first of the list with such an occurrence
\* (none named when there is none).
KeywordBoundary ==
    phase = "called" =>
        LET normalized == Normalized(reqTool, reqText)
            first == FirstStandalone(reqTool, normalized)
        IN  /\ \A k \in 1..Len(Denylist(reqTool)) :
                  reqTool = "ExecuteDDLTool" =>
                  IsMatch(keywordPattern(Denylist(reqTool)[k]), ToUpper(normalized))
                      <=> Standalone(Denylist(reqTool)[k], normalized)
            /\ KeywordScanRuns(reqTool, reqText) =>
                  lastCall.validation.message.keyword =
                      (IF first = 0 THEN <<>> ELSE Denylist(reqTool)[first])

\* ReadData accepted a query that names the column DELETED_FLAG: DELETE inside
\* the identifier is not reported
KeywordBoundary_Witness ==
    /\ Called("ReadData") /\ Validated("valid")
    /\ reqText = SqlText(<<"s","e","l","e","c","t"," ","1"," ","D","E","L","E","T","E","D","_","F","L","A","G">>, 0)
    /\ ContainsCI(Chars(reqText), <<"D","E","L","E","T","E">>)

\* position i of s is inside a string literal: an odd number of quotes
\* stands before it
InsideLiteral(s, i) == Cardinality({j \in 1..(i - 1) : s[j] = "'"}) % 2 = 1

\* the text starts with UPDATE once its comments are removed
IsUpdateStatement(text) == MatchAtCI(Trim(RemoveComments(Chars(text))), 1, <<"U","P","D","A","T","E">>)

\* WHERE occurs in the text, and only inside comments
WhereOnlyInComment(text) ==
    /\ ContainsCI(Chars(text), <<"W","H","E","R","E">>)
    /\ ~ContainsCI(RemoveComments(Chars(text)), <<"W","H","E","R","E">>)

\* WHERE occurs outside comments, and there only inside string literals
WhereOnlyInLiteral(text) ==
    LET code == RemoveComments(Chars(text))
        at == {i \in 1..Len(code) : MatchAtCI(code, i, <<"W","H","E","R","E">>)}
    IN  at # {} /\ \A i \in at : InsideLiteral(code, i)

\* as WhereOnlyInLiteral, with a space right before and right after a WHERE
SpacedWhereOnlyInLiteral(text) ==
    WhereOnlyInLiteral(text) /\ ContainsCI(RemoveComments(Chars(text)), <<" ","W","H","E","R","E"," ">>)

PatternScanForEveryClass ==
    (phase = "called" /\ reqTool \in {"ReadData", "UpdateData"}
        /\ MatchesAny(DangerousPatterns, Chars(reqText))) =>
        lastCall.validation.status # "valid"

PatternsOf(tool) ==
    CASE tool \in {"ReadData", "UpdateData"} -> DangerousPatterns
      [] tool = "DBA_ReadDataTool" -> DBA_DANGEROUS_PATTERNS
      [] tool = "ExecuteDDLTool" -> DDL_DANGEROUS_PATTERNS

\* the leading-verb (and object-type) check of the tool's policy on one
\* candidate statement
StatementAllowed(tool, stmt) ==
    CASE tool = "ReadData" -> StartsWithWord(stmt, <<"S","E","L","E","C","T">>)
      [] tool = "UpdateData" -> StartsWithWord(stmt, <<"U","P","D","A","T","E">>)
      [] tool = "DBA_ReadDataTool" -> IsDiagnosticStatement(stmt)
      [] tool = "ExecuteDDLTool" -> StatementPasses(stmt)

\* the checks in the order of the specification; each is given with whether
\* the text fails it
ChecksInOrder(tool, text) ==
    LET normalized == Normalized(tool, text)
        statements == CandidateStatements(tool, text)
    IN  << [check |-> "empty",   fails |-> normalized = <<>>],
           [check |-> "verb",    fails |-> \E n \in 1..Len(statements) :
                                              ~StatementAllowed(tool, statements[n])],
           [check |-> "keyword", fails |-> HasDeniedKeyword(tool, normalized)],
           [check |-> "pattern", fails |-> MatchesAny(PatternsOf(tool), Chars(text))],
           [check |-> "length",  fails |-> Length(text) > MaxLength(tool)],
           [check |-> "target",  fails |-> tool = "ExecuteDDLTool"
                                           /\ ReferencesProtected(normalized)] >>

EarliestFailingCheck(tool, text) ==
    LET checks == ChecksInOrder(tool, text)
        failing == {n \in 1..Len(checks) : checks[n].fails}
    IN  IF failing = {} THEN "none" ELSE checks[MinOf(failing)].check

\* the check a reason belongs to
CheckOfReason(message) ==
    CASE message.keyword # <<>> -> "keyword"
      [] message.text \in EmptyInputReasons -> "empty"
      [] message.text \in
            { "Query must start with SELECT for security reasons",
              "Query must start with UPDATE for update operations",
              "DDL statement must start with one of: CREATE, ALTER, DROP, TRUNCATE",
              "Object type must be one of: TABLE, INDEX, VIEW, TRIGGER, CONSTRAINT, DEFAULT, RULE, SCHEMA, SEQUENCE, SYNONYM",
              "All statements in a batch must be valid DDL operations.",
              "Batch must contain at least one SELECT statement or valid DBA diagnostic command." }
            -> "verb"
      [] message.text \in
            { ReadPatternReason,
              "Potentially dangerous operation detected. This tool is for diagnostic queries only.",
              "Potentially malicious SQL pattern detected in DDL statement." } -> "pattern"
      [] message.text \in
            { TooLongReason("ReadData"), TooLongReason("DBA_ReadDataTool"),
              TooLongReason("ExecuteDDLTool") } -> "length"
      [] message.text =
            "Operations on system databases (master, msdb, model, tempdb) are not allowed."
            -> "target"
      [] OTHER -> "other"

\* C24: the reason returned for a text is the reason of the earliest check it
\* fails in the order empty input, leading verb and object type of every
\* candidate statement, denied keyword, denied pattern, maximum length,
\* protected target.
FirstFailingCheckWins ==
    (phase = "called" /\ EarliestFailingCheck(reqTool, reqText) # "none") =>
        /\ lastCall.validation.status = "invalid"
        /\ CheckOfReason(lastCall.validation.message) = EarliestFailingCheck(reqTool, reqText)

\* the text on entry to the loop: comments removed, tabs and line ends
\* replaced by spaces, trimmed
LoopEntry(s) ==
    Trim(Replace(Replace(Replace(RemoveComments(s), <<"\t">>, <<" ">>), <<"\n">>, <<" ">>), <<"\r">>, <<" ">>))

\* the texts the loop goes through when it starts from s, the last one being
\* the text it exits with
RECURSIVE LoopTexts(_)
LoopTexts(s) ==
    IF Contains(s, <<" "," ">>) THEN <<s>> \o LoopTexts(Replace(s, <<" "," ">>, <<" ">>)) ELSE <<s>>

\* C25: the loop of ValidateReadQuery and ValidateUpdateQuery that replaces
\* two spaces by one terminates (every pass makes the text shorter); the text
\* it leaves has no two spaces in a row and no space at either end; and the
\* validation call ends in a result, valid or invalid.
NormalizationTerminates ==
    (phase = "called" /\ reqTool \in {"ReadData", "UpdateData"}) =>
        LET texts == LoopTexts(LoopEntry(Chars(reqText)))
            normalized == CleanQuery(Chars(reqText))
        IN  /\ \A n \in 1..(Len(texts) - 1) : Len(texts[n + 1]) < Len(texts[n])
            /\ ~Contains(normalized, <<" "," ">>)
            /\ normalized # <<>> => normalized[1] # " " /\ normalized[Len(normalized)] # " "
            /\ lastCall.validation.status \in {"valid", "invalid"}

\* ReadData called with three spaces in a row inside the query: the loop made
\* two passes and left one space
NormalizationTerminates_Witness ==
    /\ Called("ReadData") /\ Validated("valid")
    /\ reqText = SqlText(<<"s","e","l","e","c","t"," ","1"," "," "," ","x">>, 0)
    /\ Len(LoopTexts(LoopEntry(Chars(reqText)))) = 3
    /\ CleanQuery(Chars(reqText)) = <<"s","e","l","e","c","t"," ","1"," ","x">>

\* the batches of a call that come before its main batch
PlanBatches == SubSeq(lastCall.commands, 1, Len(lastCall.commands) - 1)
\* a batch whose whole text is SET SHOWPLAN_<type> <switch>
IsShowplanBatch(command, type, switch) ==
    /\ command.kind = "batch"
    /\ command.text = Literal(<<"S","E","T"," ","S","H","O","W","P","L","A","N","_">> \o type \o <<" ">> \o switch)

\* C28: the batches captureExecutionPlan issues are, in order, SET SHOWPLAN_x
\* ON, the SELECT, SET SHOWPLAN_x OFF, and every SHOWPLAN ON the database
\* carried out is followed by the matching SHOWPLAN OFF before the main batch
\* of run, also when the SELECT batch failed.
ShowplanSwitchedOffBeforeMain ==
    (Called("DBA_ReadDataTool") /\ Validated("valid") /\ lastCall.commands # <<>>) =>
        \A type \in ShowplanTypes :
            \A n \in 1..Len(PlanBatches) :
                (IsShowplanBatch(PlanBatches[n], type, <<"O","N">>) /\ PlanBatches[n].ok) =>
                    /\ n = 1
                    /\ \E k \in (n + 1)..Len(PlanBatches) :
                           IsShowplanBatch(PlanBatches[k], type, <<"O","F","F">>)

Min(a, b) == IF a < b THEN a ELSE b

\* C30: the list ReadData returns for a result set of n rows holds exactly
\* min(n, 10000) rows, in the order of the result set; the list never holds
\* more rows than the cap, and recordCount is its Count.
RowCap ==
    /\ readLoop.results.Count <= maxRecords
    /\ readLoop.results.Count = readLoop.recordCount
    /\ (readLoop.pc = "returned" /\ readLoop.success) =>
           /\ readLoop.results.Count = Min(readLoop.rows, maxRecords)
           /\ readLoop.results.inOrder
           /\ readLoop.results.last = readLoop.results.Count

\* a result set of one row more than the cap has been read and the list
\* returned holds 10,000 rows
RowCap_Witness ==
    /\ readLoop.pc = "returned" /\ readLoop.success
    /\ readLoop.rows = maxRecords + 1
    /\ readLoop.results.Count = maxRecords
    /\ readLoop.position = maxRecords + 1

\* the step starts the tool's own run for request c
BodyStarts(c) == calls[c].pc # "running" /\ calls'[c].pc = "running"
\* C26: the body of a tool dispatched by the CallTool handler starts only when
\* ensureSqlConnection has completed successfully in the same call: it
\* returned at once because the pool was connected, or sql.connect gave a pool
\* that was assigned to globalSqlPool.  When createSqlConfig throws or the
\* connect fails, the body is not run, globalSqlPool is not assigned and no
\* pool is created, and the response has isError = true.
BodyRunsAfterConnection ==
    [][\A c \in DOMAIN calls :
        /\ BodyStarts(c) =>
             \/ /\ calls[c].pc \in {"idle", "responded"}
                /\ globalSqlPool # 0 /\ pools[globalSqlPool].connected
                /\ UNCHANGED << globalSqlPool, pools >>
             \/ /\ calls[c].pc = "connecting"
                /\ globalSqlPool' = Len(pools) + 1
                /\ Len(pools') = Len(pools) + 1
                /\ pools'[globalSqlPool'] = Pool(calls[c].ranOn, TRUE, FALSE)
        /\ (calls[c].pc \in {"idle", "responded", "closing", "connecting"}
            /\ calls'[c].pc = "responded" /\ calls'[c] # calls[c]) =>
             /\ calls'[c].isError
             /\ calls'[c].ranOn = ""
             /\ UNCHANGED << globalSqlPool, pools >>
        /\ (calls'[c].pc = "responded" /\ calls'[c].ranOn # "" /\ calls'[c] # calls[c]) =>
             calls[c].pc = "running"
    ]_vars

\* a request to a tool was answered with isError = true without the tool's
\* body having run, and globalSqlPool is still null
BodyRunsAfterConnection_Witness ==
    \E c \in DOMAIN calls :
        /\ calls[c].pc = "responded" /\ calls[c].tool # "none"
        /\ calls[c].isError /\ calls[c].ranOn = ""
        /\ globalSqlPool = 0 /\ pools = << >>

\* the requests whose sql.connect is in flight
Connecting == { c \in DOMAIN calls : calls[c].pc = "connecting" }
\* a pool that is open while globalSqlPool does not refer to it
OpenUnreferenced(p) == p # globalSqlPool /\ ~pools[p].closed

\* C27: under interleaved tool calls ensureSqlConnection opens at most one
\* pool per disconnected period: sql.connect is never in flight for two
\* requests at once, and no pool is left open once globalSqlPool refers to
\* another one.
OnePoolPerDisconnectedPeriod ==
    /\ Cardinality(Connecting) <= 1
    /\ \A p \in DOMAIN pools : ~OpenUnreferenced(p)

\* the text of the request fails the validation of the tool it is sent to
TextFailsValidation ==
    LET validation == validateDBAQuery(reqText)
    IN  validation.completion = "return" /\ ~validation.isValid

\* C29: validation precedes any database interaction: for a request whose
\* text fails validation no connection is opened (no pool is created and no
\* sql.connect is in flight), and the response to it reports the validation
\* failure, also when the database is unreachable or not configured.
ValidationBeforeConnection ==
    TextFailsValidation =>
        /\ pools = << >>
        /\ \A c \in DOMAIN calls :
               /\ calls[c].pc \notin {"closing", "connecting"}
               /\ (calls[c].pc = "responded" /\ calls[c].tool # "none") =>
                      /\ ~calls[c].isError
                      /\ phase = "called"
                      /\ lastCall.validation.status = "invalid"
                      /\ lastCall.result.error = "SECURITY_VALIDATION_FAILED"
====
